---- MODULE Spec2Model ----
(***************************************************************************)
(* Leaf-level constraint family of the MPT circuit.                        *)
(*                                                                         *)
(* A gate is a set of polynomial identities over the cells of a row and of *)
(* rows at fixed rotations from it.  The state is the witness (the cells   *)
(* the gates read) and the verdict of each gate on it; the witness is      *)
(* drawn in the initial state and the gates are evaluated by the actions.  *)
(*                                                                         *)
(* Field elements are the integers modulo the prime P; every expression of *)
(* the source is evaluated with FAdd / FSub / FMul, i.e. in the field.     *)
(***************************************************************************)
EXTENDS Integers, Sequences, FiniteSets, TLC

\* ------------------------------------------------------------------ field
\* Prime modulus standing for F: FieldExt ((P-1)^2 fits 32-bit integers).
P == 46337

\* The RLC challenge.
r == 2

FAdd(a, b) == (a + b) % P
FSub(a, b) == (a - b) % P
FMul(a, b) == (a * b) % P

RECURSIVE FPow(_, _)
FPow(b, n) ==
    IF n = 0 THEN 1
    ELSE IF n % 2 = 0 THEN LET h == FPow(b, n \div 2) IN FMul(h, h)
    ELSE FMul(b, FPow(b, n - 1))

\* Sum / product of a sequence of field elements.
RECURSIVE FSumFrom(_, _, _)
FSumFrom(s, lo, hi) ==
    IF lo > hi THEN 0
    ELSE IF lo = hi THEN s[lo]
    ELSE LET mid == (lo + hi) \div 2
         IN  FAdd(FSumFrom(s, lo, mid), FSumFrom(s, mid + 1, hi))

FSum(s) == FSumFrom(s, 1, Len(s))

FMul3(a, b, c) == FMul(FMul(a, b), c)

not(a) == FSub(1, a)

\* A constraint `sel * e` pushed to a gate is satisfied when it evaluates to 0.
\* (A disabled selector makes the product 0 whatever e is.)
constraint(sel, e) == sel = 0 \/ FMul(sel, e) = 0

\* ------------------------------------------------------------- parameters
HASH_WIDTH == 32
R_TABLE_LEN == 32
c32 == 32
c48 == 48
c64 == 64
c128 == 128
c248 == 248

\* Powers of the challenge as a table: RPowers[i + 1] = r^i, i in 0..3*HASH_WIDTH.
RECURSIVE PowSeq(_)
PowSeq(n) ==
    IF n = 0 THEN <<1>>
    ELSE LET t == PowSeq(n - 1) IN Append(t, FMul(t[n], r))

RPowers == PowSeq(3 * HASH_WIDTH)

RPow(i) == RPowers[i + 1]

\* r_table[i] = r^(i+1)
r_table(i) == RPow(i + 1)

\* s_main.bytes[ind] with the source's 0-based index.
Byte(row, ind) == row.bytes[ind + 1]

\* helpers::compute_rlc(meta, advices, rind, mult, rotation, r_table): the
\* columns times consecutive entries of r_table starting at rind, wrapping
\* around the table through r_table[R_TABLE_LEN - 1].
compute_rlc(advices, rind, mult) ==
    FSum([k \in 1..Len(advices) |->
            LET pos == rind + k - 1
            IN  IF pos < R_TABLE_LEN
                THEN FMul3(advices[k], r_table(pos), mult)
                ELSE FMul(FMul3(advices[k], r_table(pos - R_TABLE_LEN),
                                r_table(R_TABLE_LEN - 1)), mult)])

\* helpers::get_bool_constraint(q_enable, expr)
get_bool_constraint(q_enable, e) == FMul3(q_enable, e, not(e))

\* ------------------------------------------------------------------ state
VARIABLES
    pc,         \* "assigned" once the witness is laid out, then "key_checked"
                \* or "value_checked" once the gate of the row has been evaluated
    is_s,       \* the side (S or C) the chip is configured for
    branch,     \* cells of the parent branch rows (init row, first child row)
    above,      \* cells of the level above the parent branch
    account,    \* cells of the account leaf rows
    leaf_key,   \* the leaf key row
    leaf_value, \* the leaf value row
    keccak,     \* the Keccak table: (input rlc, input length, output rlc)
    key_gate,   \* verdict of the Leaf Key Gate on leaf_key
    value_gate, \* verdict of the Leaf Value Gate on leaf_value
    lookups,    \* Keccak lookups the gate of the row issued
    drifted,    \* the drifted leaf row and the cells of the rows its gate reads
    drifted_gate, \* verdict of the Drifted-Leaf Gate on drifted
    step,       \* an execution step: opcode, stack words and gadget cells
    step_gate   \* verdict of the gadget's constraints on step

vars == <<pc, is_s, branch, above, account, leaf_key, leaf_value, keccak,
          key_gate, value_gate, lookups, drifted, drifted_gate, step, step_gate>>

\* ------------------------------------------------------- leaf key row
\* The 36 byte cells of a row in column order:
\* s_main.rlp1, s_main.rlp2, s_main.bytes[0..31], c_main.rlp1, c_main.rlp2.
Cells(row) == <<row.s_rlp1, row.s_rlp2>> \o row.bytes \o <<row.c_rlp1, row.c_rlp2>>

\* flag1 = accs.s_mod_node_rlc, flag2 = accs.c_mod_node_rlc of the key row.
last_level(row) == FMul(row.flag1, row.flag2)
is_long(row) == FMul(row.flag1, not(row.flag2))
is_short(row) == FMul(not(row.flag1), row.flag2)
one_nibble(row) == FMul(not(row.flag1), not(row.flag2))

\* Only flag1 checked to be boolean.
flags_boolean_flag1_only(row) == get_bool_constraint(1, row.flag1) = 0

\* "flag1 is boolean", "flag2 is boolean"
flags_boolean(row) ==
    /\ get_bool_constraint(1, row.flag1) = 0
    /\ get_bool_constraint(1, row.flag2) = 0

\* "is_long: s_rlp1 = 248", "last_level: s_rlp2 = 32"
rlp_prefix_constraints(row) ==
    /\ constraint(is_long(row), FSub(row.s_rlp1, c248))
    /\ constraint(last_level(row), FSub(row.s_rlp2, c32))

rlc_last_level_or_one_nibble(row) == FAdd(row.s_rlp1, FMul(row.s_rlp2, r_table(0)))

\* c_rlp2 weighted like c_rlp1.
leaf_key_row_rlc_c_rlp2_shifted(row) ==
    FSum(<<rlc_last_level_or_one_nibble(row),
           compute_rlc(row.bytes, 1, 1),
           FMul3(row.c_rlp1, r_table(R_TABLE_LEN - 1), r_table(1)),
           FMul3(row.c_rlp2, r_table(R_TABLE_LEN - 1), r_table(1))>>)

\* rlc of the whole key row: s_rlp1, s_rlp2, s_main.bytes, c_rlp1, c_rlp2.
leaf_key_row_rlc(row) ==
    FSum(<<rlc_last_level_or_one_nibble(row),
           compute_rlc(row.bytes, 1, 1),
           FMul3(row.c_rlp1, r_table(R_TABLE_LEN - 1), r_table(1)),
           FMul3(row.c_rlp2, r_table(R_TABLE_LEN - 1), r_table(2))>>)

\* "Leaf key acc", "Leaf key acc last level or one nibble"
leaf_key_acc_constraints(row) ==
    /\ constraint(FAdd(is_short(row), is_long(row)),
                  FSub(leaf_key_row_rlc(row), row.acc_s_rlc))
    /\ constraint(FAdd(last_level(row), one_nibble(row)),
                  FSub(rlc_last_level_or_one_nibble(row), row.acc_s_rlc))

\* Gate "Storage leaf RLC"
storage_leaf_rlc_gate(row) ==
    /\ rlp_prefix_constraints(row)
    /\ flags_boolean(row)
    /\ leaf_key_acc_constraints(row)

\* Fixed table RMult: (ind, r^ind).
MultTableLen == 2 * HASH_WIDTH + 1

\* helpers::mult_diff_lookup(meta, sel, addition, key_len_col, mult_diff_col,
\* key_len_offset, fixed_table): under sel, (key_len - offset + addition,
\* mult) is a row of the RMult table.
mult_diff_lookup(sel, addition, key_len, mult, key_len_offset) ==
    sel # 0 =>
        \E ind \in 0..MultTableLen :
            /\ FMul(sel, FAdd(FSub(key_len, key_len_offset), addition)) = ind
            /\ FMul(sel, mult) = RPow(ind)

\* acc_mult corresponds to key length (short / long)
acc_mult_lookups(row) ==
    /\ mult_diff_lookup(is_short(row), 2, row.s_rlp2, row.acc_s_mult, 128)
    /\ mult_diff_lookup(is_long(row), 3, Byte(row, 0), row.acc_s_mult, 128)

\* ------------------------ key RLC & nibbles (not first level, not placeholder)
is_branch_placeholder(s, br) ==
    IF s THEN br.is_branch_s_placeholder ELSE br.is_branch_c_placeholder

\* for ind in first..HASH_WIDTH: s_main.bytes[ind] * key_mult * r_table[ind - off]
key_bytes_loop(row, first, off, km) ==
    FSum([k \in 1..(HASH_WIDTH - first) |->
            LET ind == first + k - 1
            IN  FMul3(Byte(row, ind), km, r_table(ind - off))])

\* key_mult that ignores the even selector.
key_mult_always_odd(key_mult_start, sel1, sel2) == FMul(key_mult_start, r_table(0))

\* key_mult: key_mult_start * r if sel1, key_mult_start if sel2
key_mult(key_mult_start, sel1, sel2) ==
    FAdd(FMul3(key_mult_start, r_table(0), sel1), FMul(key_mult_start, sel2))

key_rlc_acc_short(key_rlc_acc_start, key_mult_start, sel1, sel2, row) ==
    LET km == key_mult(key_mult_start, sel1, sel2)
    IN  FSum(<<key_rlc_acc_start,
               FMul3(FSub(Byte(row, 0), c48), key_mult_start, sel1),
               FMul(Byte(row, 1), km),
               key_bytes_loop(row, 2, 2, km),
               FMul3(row.c_rlp1, km, r_table(30))>>)

key_rlc_acc_long(key_rlc_acc_start, key_mult_start, sel1, sel2, row) ==
    LET km == key_mult(key_mult_start, sel1, sel2)
    IN  FSum(<<key_rlc_acc_start,
               FMul3(FSub(Byte(row, 1), c48), key_mult_start, sel1),
               FMul(Byte(row, 2), km),
               key_bytes_loop(row, 3, 3, km),
               FMul3(row.c_rlp1, km, r_table(29)),
               FMul3(row.c_rlp2, km, r_table(30))>>)

\* The long variant reading the length byte of the short variant.
leaf_nibbles_long_from_s_rlp2(row, sel1, sel2) ==
    FAdd(FMul(FMul(FSub(FSub(row.s_rlp2, c128), 1), 2), sel2),
         FMul(FSub(FMul(FSub(row.s_rlp2, c128), 2), 1), sel1))

leaf_nibbles_long(row, sel1, sel2) ==
    FAdd(FMul(FMul(FSub(FSub(Byte(row, 0), c128), 1), 2), sel2),
         FMul(FSub(FMul(FSub(Byte(row, 0), c128), 2), 1), sel1))

leaf_nibbles_short(row, sel1, sel2) ==
    FAdd(FMul(FMul(FSub(FSub(row.s_rlp2, c128), 1), 2), sel2),
         FMul(FSub(FMul(FSub(row.s_rlp2, c128), 2), 1), sel1))

leaf_nibbles(row, sel1, sel2) ==
    FSum(<<FMul(leaf_nibbles_long(row, sel1, sel2), is_long(row)),
           FMul(leaf_nibbles_short(row, sel1, sel2), is_short(row)),
           FMul(0, last_level(row)),
           FMul(1, one_nibble(row))>>)

\* q_enable * (1 - is_branch_placeholder) * (1 - is_leaf_in_first_level)
not_first_level_not_placeholder(s, br, ac) ==
    FMul(not(is_branch_placeholder(s, br)), not(ac.is_account_leaf_in_added_branch))

\* "Leaf key acc s_advice0", "Leaf key acc s_advice1"
first_key_byte_constraints(s, br, ac, row) ==
    /\ constraint(FMul3(br.sel2, not_first_level_not_placeholder(s, br, ac),
                        is_short(row)),
                  FSub(Byte(row, 0), c32))
    /\ constraint(FMul3(br.sel2, not_first_level_not_placeholder(s, br, ac),
                        is_long(row)),
                  FSub(Byte(row, 1), c32))

\* "Key RLC short", "Key RLC long", "Key RLC last level or one nibble"
key_rlc_constraints(s, br, ac, row) ==
    /\ constraint(FMul(not_first_level_not_placeholder(s, br, ac), is_short(row)),
                  FSub(key_rlc_acc_short(br.key_rlc, br.key_mult, br.sel1, br.sel2,
                                         row),
                       row.key_rlc))
    /\ constraint(FMul(not_first_level_not_placeholder(s, br, ac), is_long(row)),
                  FSub(key_rlc_acc_long(br.key_rlc, br.key_mult, br.sel1, br.sel2,
                                        row),
                       row.key_rlc))
    /\ constraint(FMul(not_first_level_not_placeholder(s, br, ac),
                       FAdd(last_level(row), one_nibble(row))),
                  FSub(br.key_rlc, row.key_rlc)) \* key_rlc has already been computed

\* A total-nibbles check that forgets the leaves without a length byte.
nibbles_total_short_long_only(s, br, ac, row) ==
    constraint(FMul(not_first_level_not_placeholder(s, br, ac),
                    FAdd(is_short(row), is_long(row))),
               FSub(FAdd(br.nibbles_count, leaf_nibbles(row, br.sel1, br.sel2)), c64))

\* "Total number of storage address nibbles is 64 (not first level, not
\* branch placeholder)"
nibbles_total_constraint(s, br, ac, row) ==
    constraint(not_first_level_not_placeholder(s, br, ac),
               FSub(FAdd(br.nibbles_count, leaf_nibbles(row, br.sel1, br.sel2)), c64))

\* Gate "Storage leaf key RLC & nibbles count (leaf not in first level,
\* branch not placeholder)"
key_rlc_gate(s, br, ac, row) ==
    /\ first_key_byte_constraints(s, br, ac, row)
    /\ key_rlc_constraints(s, br, ac, row)
    /\ nibbles_total_constraint(s, br, ac, row)


\* The first level key RLC of a short row with key_mult = r instead of one.
key_rlc_acc_short_first_level_mult_r(row) ==
    FSum(<<0,
           FMul(Byte(row, 1), r_table(0)),
           key_bytes_loop(row, 2, 2, r_table(0)),
           FMul3(row.c_rlp1, r_table(0), r_table(30))>>)

\* ------------------------------------------ key RLC (leaf in first level)
\* Here is_long and is_short are the flag cells themselves.
key_rlc_acc_short_first_level(row) ==
    FSum(<<0,
           FMul(Byte(row, 1), 1),
           key_bytes_loop(row, 2, 2, 1),
           FMul3(row.c_rlp1, 1, r_table(30))>>)

key_rlc_acc_long_first_level(row) ==
    FSum(<<0,
           FMul(Byte(row, 2), 1),
           key_bytes_loop(row, 3, 3, 1),
           FMul3(row.c_rlp1, 1, r_table(29)),
           FMul3(row.c_rlp2, 1, r_table(30))>>)
\* leaf_nibbles of the first level with leaf_nibbles_short not multiplied by
\* is_short.
leaf_nibbles_first_level_short_unflagged(row) ==
    FAdd(FMul(FMul(FSub(FSub(Byte(row, 0), c128), 1), 2), row.flag1),
         FMul(FSub(FSub(row.s_rlp2, c128), 1), 2))

\* When in first level, it is always even number of nibbles (sel2 = 1).
leaf_nibbles_first_level(row) ==
    FAdd(FMul(FMul(FSub(FSub(Byte(row, 0), c128), 1), 2), row.flag1),
         FMul(FMul(FSub(FSub(row.s_rlp2, c128), 1), 2), row.flag2))

\* Gate "Storage leaf key RLC (leaf in first level)"
key_rlc_first_level_gate(ac, row) ==
    LET is_leaf_in_first_level == ac.is_account_leaf_in_added_branch
    IN  /\ constraint(FMul(is_leaf_in_first_level, row.flag2),
                      FSub(Byte(row, 0), c32))
        /\ constraint(FMul(is_leaf_in_first_level, row.flag2),
                      FSub(key_rlc_acc_short_first_level(row), row.key_rlc))
        /\ constraint(FMul(is_leaf_in_first_level, row.flag1),
                      FSub(Byte(row, 1), c32))
        /\ constraint(FMul(is_leaf_in_first_level, row.flag1),
                      FSub(key_rlc_acc_long_first_level(row), row.key_rlc))
        /\ constraint(is_leaf_in_first_level,
                      FSub(leaf_nibbles_first_level(row), c64))

\* ------------------------------------------------- previous level RLC
\* Gate "Previous level RLC": denoter.sel1 / sel2 of the key row hold key.rlc /
\* key.mult of the branch above the parent branch (0 / 1 in the first storage
\* level).
previous_level_rlc_gate(ab, ac, row) ==
    LET is_leaf_without_branch  == ac.is_account_leaf_in_added_branch
        key_rlc_mult_prev_level == FAdd(FMul(not(ab.is_first_storage_level), ab.key_mult),
                                        ab.is_first_storage_level)
        key_rlc_prev_level      == FMul(not(ab.is_first_storage_level), ab.key_rlc)
    IN  /\ constraint(not(is_leaf_without_branch),
                      FSub(row.sel1, key_rlc_prev_level))
        /\ constraint(not(is_leaf_without_branch),
                      FSub(row.sel2, key_rlc_mult_prev_level))

\* ------------------------------------------ key RLC (after placeholder)
key_rlc_acc_start_after_placeholder(ab, row) ==
    FMul(row.sel1, not(ab.is_first_storage_level))

key_mult_start_after_placeholder(ab, row) ==
    FAdd(FMul(row.sel2, not(ab.is_first_storage_level)), ab.is_first_storage_level)

sel1_after_placeholder(ab) == FMul(not(ab.is_first_storage_level), ab.sel1)

sel2_after_placeholder(ab) ==
    FAdd(FMul(not(ab.is_first_storage_level), ab.sel2), ab.is_first_storage_level)

\* The nibbles of a leaf after a placeholder without the one_nibble term.
leaf_nibbles_after_placeholder_short_long_only(ab, row) ==
    LET sel1 == sel1_after_placeholder(ab)
        sel2 == sel2_after_placeholder(ab)
    IN  FSum(<<FMul(leaf_nibbles_long(row, sel1, sel2), is_long(row)),
               FMul(leaf_nibbles_short(row, sel1, sel2), is_short(row))>>)

leaf_nibbles_after_placeholder(ab, row) ==
    LET sel1 == sel1_after_placeholder(ab)
        sel2 == sel2_after_placeholder(ab)
    IN  FSum(<<FMul(leaf_nibbles_long(row, sel1, sel2), is_long(row)),
               FMul(leaf_nibbles_short(row, sel1, sel2), is_short(row)),
               FMul(1, one_nibble(row))>>)
\* The selector after a placeholder without the factor of the first level.
not_first_level_placeholder_any_level(s, br, ac) == is_branch_placeholder(s, br)

\* q_enable * is_branch_placeholder * (1 - is_leaf_in_first_level)
not_first_level_placeholder(s, br, ac) ==
    FMul(is_branch_placeholder(s, br), not(ac.is_account_leaf_in_added_branch))

\* The gate after a placeholder starting from the accumulator and the
\* selectors of the placeholder branch itself.
key_rlc_after_placeholder_gate_own_branch(s, br, ab, ac, row) ==
    LET start == br.key_rlc
        mult  == br.key_mult
        sel1  == br.sel1
        sel2  == br.sel2
        on    == not_first_level_placeholder(s, br, ac)
        nibbles_count == br.nibbles_count
    IN  /\ constraint(FMul3(sel2, on, is_short(row)), FSub(Byte(row, 0), c32))
        /\ constraint(FMul(on, is_short(row)),
                      FSub(key_rlc_acc_short(start, mult, sel1, sel2, row),
                           row.key_rlc))
        /\ constraint(FMul3(sel2, on, is_long(row)), FSub(Byte(row, 1), c32))
        /\ constraint(FMul(on, is_long(row)),
                      FSub(key_rlc_acc_long(start, mult, sel1, sel2, row),
                           row.key_rlc))
        /\ constraint(on,
                      FSub(FAdd(nibbles_count,
                                FSum(<<FMul(leaf_nibbles_long(row, sel1, sel2),
                                            is_long(row)),
                                       FMul(leaf_nibbles_short(row, sel1, sel2),
                                            is_short(row)),
                                       FMul(1, one_nibble(row))>>)), c64))

\* Gate "Storage leaf key RLC (after placeholder)"
key_rlc_after_placeholder_gate(s, br, ab, ac, row) ==
    LET start == key_rlc_acc_start_after_placeholder(ab, row)
        mult  == key_mult_start_after_placeholder(ab, row)
        sel1  == sel1_after_placeholder(ab)
        sel2  == sel2_after_placeholder(ab)
        on    == not_first_level_placeholder(s, br, ac)
        nibbles_count == FMul(ab.nibbles_count, not(ab.is_first_storage_level))
    IN  /\ constraint(FMul3(sel2, on, is_short(row)), FSub(Byte(row, 0), c32))
        /\ constraint(FMul(on, is_short(row)),
                      FSub(key_rlc_acc_short(start, mult, sel1, sel2, row),
                           row.key_rlc))
        /\ constraint(FMul3(sel2, on, is_long(row)), FSub(Byte(row, 1), c32))
        /\ constraint(FMul(on, is_long(row)),
                      FSub(key_rlc_acc_long(start, mult, sel1, sel2, row),
                           row.key_rlc))
        /\ constraint(on,
                      FSub(FAdd(nibbles_count,
                                leaf_nibbles_after_placeholder(ab, row)), c64))

\* ------------------------------------------------------- range lookups
\* helpers::range_lookups(.., FixedTableTag::Range256, ..)
range_lookups(cells) == \A i \in 1..Len(cells) : cells[i] \in 0..255

leaf_key_range_lookups(row) ==
    /\ range_lookups(row.bytes)
    /\ range_lookups(<<row.s_rlp1, row.s_rlp2, row.c_rlp1, row.c_rlp2>>)


\* --------------------------------------------------------- witness inputs
\* Bounds of the enumerated witnesses.
FlagMax == 2        \* flag cells range over 0..FlagMax
NibbleSpread == 3   \* nibbles_count ranges over (64 - NibbleSpread)..64

Bytes32(b0, b1, b2, b31) ==
    [i \in 1..HASH_WIDTH |->
        IF i = 1 THEN b0 ELSE IF i = 2 THEN b1 ELSE IF i = 3 THEN b2
        ELSE IF i = HASH_WIDTH THEN b31 ELSE 0]

\* (s_main.bytes[31], c_rlp1, c_rlp2): the cells a full-width key reaches.
KeyTails == {<<0, 0, 0>>, <<5, 11, 0>>, <<5, 11, 13>>}

KeyRowBytes(S1, S2, B0, B1, B2, T) ==
    { [s_rlp1 |-> a, s_rlp2 |-> b, bytes |-> Bytes32(b0, b1, b2, t[1]),
       c_rlp1 |-> t[2], c_rlp2 |-> t[3]] :
        a \in S1, b \in S2, b0 \in B0, b1 \in B1, b2 \in B2, t \in T }

\* The remaining cells of a key row.
KeyRow(raw, f1, f2, acc_rlc, acc_mult, krlc, d1, d2) ==
    [s_rlp1 |-> raw.s_rlp1, s_rlp2 |-> raw.s_rlp2, bytes |-> raw.bytes,
     c_rlp1 |-> raw.c_rlp1, c_rlp2 |-> raw.c_rlp2,
     flag1 |-> f1, flag2 |-> f2,
     acc_s_rlc |-> acc_rlc, acc_s_mult |-> acc_mult, acc_c_rlc |-> 0,
     key_rlc |-> krlc, sel1 |-> d1, sel2 |-> d2]

Branch(sel1, sel2, s_ph, c_ph, nibbles, krlc, kmult) ==
    [sel1 |-> sel1, sel2 |-> sel2,
     is_branch_s_placeholder |-> s_ph, is_branch_c_placeholder |-> c_ph,
     nibbles_count |-> nibbles, key_rlc |-> krlc, key_mult |-> kmult,
     is_modified_node_empty |-> 0, mod_node_rlc |-> 0]

Above(first, sel1, sel2, nibbles, krlc, kmult) ==
    [is_first_storage_level |-> first, sel1 |-> sel1, sel2 |-> sel2,
     nibbles_count |-> nibbles, key_rlc |-> krlc, key_mult |-> kmult,
     is_account_leaf_in_added_branch |-> 0, mod_node_rlc |-> 0]

ZeroBytes == [i \in 1..HASH_WIDTH |-> 0]

Account(first_level) ==
    [is_account_leaf_in_added_branch |-> first_level,
     storage_root |-> ZeroBytes, storage_root_prev |-> ZeroBytes]

NoValueRow ==
    [s_rlp1 |-> 0, s_rlp2 |-> 0, bytes |-> ZeroBytes, is_long |-> 0, is_short |-> 0,
     acc_s_rlc |-> 0, acc_c_rlc |-> 0, acc_c_rlc_s |-> 0, sel |-> 0,
     key_mult |-> 0, value_prev |-> 0, value |-> 0, not_first_level |-> 0]

NoKeyVerdict ==
    [rlc |-> FALSE, mult |-> FALSE, key |-> FALSE, first_level |-> FALSE,
     prev_level |-> FALSE, after_placeholder |-> FALSE, range |-> FALSE]

NoValueVerdict ==
    [type |-> FALSE, rlc |-> FALSE, external |-> FALSE, rlp |-> FALSE,
     empty_trie |-> FALSE, non_hashed |-> FALSE, keccak |-> FALSE]

\* No drifted leaf row is laid out; its gate has not been evaluated.
NoDriftedRows == [q_enable |-> 0]

NoDriftedVerdict ==
    [rlp1 |-> FALSE, rlc |-> FALSE, first_byte |-> FALSE, key_s |-> FALSE,
     key_c |-> FALSE, keccak |-> FALSE, key_len |-> FALSE, mult |-> FALSE,
     range |-> FALSE]

\* No execution step is laid out; no gadget has been evaluated.
NoStep == [opcode |-> "none"]

NoStepVerdict == [constraints |-> FALSE, stack |-> FALSE]

\* The multiplier an honest prover stores in acc_s.mult of the key row.
HonestAccMult(raw, long) ==
    IF long THEN RPow((Byte(raw, 0) + 3 - 128) % (MultTableLen + 1))
    ELSE RPow((raw.s_rlp2 + 2 - 128) % (MultTableLen + 1))

\* ------------------------------------------------ gate "Storage leaf RLC"
\* Witnesses varying the cells the gate "Storage leaf RLC" reads; the other
\* cells are the ones an honest prover lays out around the row.
InitLeafRlc ==
    \E raw \in KeyRowBytes({194, 248}, {32, 49, 130}, {0, 49, 130}, {0, 32}, {0, 9},
                           KeyTails),
       f1 \in 0..FlagMax, f2 \in 0..FlagMax, acc_two \in BOOLEAN, mult_long \in BOOLEAN :
        LET long  == f1 = 1 /\ f2 = 0
            first == IF long THEN Byte(raw, 1) ELSE Byte(raw, 0)
            even  == IF f1 = f2 THEN f1 = 1 ELSE first = 32
            s1    == IF even THEN 0 ELSE 1
            s2    == IF even THEN 1 ELSE 0
            pre   == KeyRow(raw, f1, f2, 0, 0, 0, 0, 0)
            krlc  == IF f1 = f2 THEN 7
                     ELSE IF long THEN key_rlc_acc_long(7, r, s1, s2, pre)
                     ELSE key_rlc_acc_short(7, r, s1, s2, pre)
        IN  /\ pc = "assigned"
            /\ is_s = TRUE
            /\ branch = Branch(s1, s2, 0, 0, FSub(c64, leaf_nibbles(pre, s1, s2)), 7, r)
            /\ above = Above(0, 0, 1, 0, 3, 1)
            /\ account = Account(0)
            /\ leaf_key = KeyRow(raw, f1, f2,
                                 IF acc_two THEN rlc_last_level_or_one_nibble(pre)
                                 ELSE leaf_key_row_rlc(pre),
                                 HonestAccMult(raw, mult_long), krlc, 3, 1)
            /\ leaf_value = NoValueRow
            /\ keccak = {}
            /\ key_gate = NoKeyVerdict
            /\ value_gate = NoValueVerdict
            /\ lookups = {}
            /\ drifted = NoDriftedRows
            /\ drifted_gate = NoDriftedVerdict
            /\ step = NoStep
            /\ step_gate = NoStepVerdict

\* ------------------------------------------------------------- actions
\* The prover's circuit is checked on the leaf key row: every gate of
\* LeafKeyChip::configure is evaluated.
VerifyLeafKey ==
    /\ pc = "assigned"
    /\ pc' = "key_checked"
    /\ key_gate' =
         [rlc |-> storage_leaf_rlc_gate(leaf_key),
          mult |-> acc_mult_lookups(leaf_key),
          key |-> key_rlc_gate(is_s, branch, account, leaf_key),
          first_level |-> key_rlc_first_level_gate(account, leaf_key),
          prev_level |-> previous_level_rlc_gate(above, account, leaf_key),
          after_placeholder |->
              key_rlc_after_placeholder_gate(is_s, branch, above, account, leaf_key),
          range |-> leaf_key_range_lookups(leaf_key)]
    /\ UNCHANGED <<is_s, branch, above, account, leaf_key, leaf_value, keccak,
                   value_gate, lookups, drifted, drifted_gate, step, step_gate>>

NextLeafKey == VerifyLeafKey

SpecLeafRlc == InitLeafRlc /\ [][NextLeafKey]_vars

\* --- gate "Storage leaf key RLC & nibbles count (not first level, not placeholder)"
\* Witnesses varying the cells this gate reads: the key row, the selectors and
\* the nibble count of the parent branch, and the side being configured (the
\* other side's branch is a placeholder).  acc_s of the row is the honest one.
InitLeafKey ==
    \E raw \in KeyRowBytes({226, 248}, {32, 49, 130}, {32, 49, 130}, {32, 49}, {9},
                           {<<0, 0, 0>>, <<5, 11, 13>>}),
       f1 \in 0..1, f2 \in 0..1, odd \in BOOLEAN, s \in BOOLEAN :
        LET s1  == IF odd THEN 1 ELSE 0
            s2  == 1 - s1
            pre == KeyRow(raw, f1, f2, 0, 0, 0, 0, 0)
        IN  \E acc \in {IF f1 = f2 THEN rlc_last_level_or_one_nibble(pre)
                        ELSE leaf_key_row_rlc(pre)},
               krlc \in {key_rlc_acc_short(7, r, s1, s2, pre),
                         key_rlc_acc_long(7, r, s1, s2, pre),
                         7,
                         FAdd(7, FMul(FSub(raw.s_rlp2, c48), r))},
               nibbles \in (c64 - NibbleSpread)..c64 :
                /\ pc = "assigned"
                /\ is_s = s
                /\ branch = Branch(s1, s2, IF s THEN 0 ELSE 1, IF s THEN 1 ELSE 0,
                                   nibbles, 7, r)
                /\ above = Above(0, 0, 1, 0, 3, 1)
                /\ account = Account(0)
                /\ leaf_key = KeyRow(raw, f1, f2, acc,
                                     HonestAccMult(raw, f1 = 1 /\ f2 = 0), krlc, 3, 1)
                /\ leaf_value = NoValueRow
                /\ keccak = {}
                /\ key_gate = NoKeyVerdict
                /\ value_gate = NoValueVerdict
                /\ lookups = {}
                /\ drifted = NoDriftedRows
                /\ drifted_gate = NoDriftedVerdict
                /\ step = NoStep
                /\ step_gate = NoStepVerdict

SpecLeafKey == InitLeafKey /\ [][NextLeafKey]_vars

\* ------------------------- gate "Storage leaf key RLC (leaf in first level)"
\* Witnesses varying the key row, the flags, key.rlc and whether the account
\* leaf is directly above the leaf; acc_s of the row is the honest one.
InitLeafFirstLevel ==
    \E raw \in KeyRowBytes({227, 248}, {32, 160, 161}, {32, 160, 161}, {32, 49}, {9},
                           {<<0, 0, 0>>, <<5, 11, 13>>}),
       f1 \in 0..1, f2 \in 0..1, first \in 0..1, ph \in 0..1, s \in BOOLEAN :
        LET pre == KeyRow(raw, f1, f2, 0, 0, 0, 0, 0)
        IN  \E acc \in {IF f1 = f2 THEN rlc_last_level_or_one_nibble(pre)
                        ELSE leaf_key_row_rlc(pre)},
               krlc \in {key_rlc_acc_short_first_level(pre),
                         key_rlc_acc_long_first_level(pre),
                         key_rlc_acc_short(7, r, 0, 1, pre),
                         key_rlc_acc_long(7, r, 0, 1, pre)} :
                /\ pc = "assigned"
                /\ is_s = s
                /\ branch = Branch(0, 1, IF s THEN ph ELSE 0, IF s THEN 0 ELSE ph,
                                   0, 7, r)
                /\ above = Above(0, 0, 1, 0, 3, 1)
                /\ account = Account(first)
                /\ leaf_key = KeyRow(raw, f1, f2, acc,
                                     HonestAccMult(raw, f1 = 1 /\ f2 = 0), krlc, 3, 1)
                /\ leaf_value = NoValueRow
                /\ keccak = {}
                /\ key_gate = NoKeyVerdict
                /\ value_gate = NoValueVerdict
                /\ lookups = {}
                /\ drifted = NoDriftedRows
                /\ drifted_gate = NoDriftedVerdict
                /\ step = NoStep
                /\ step_gate = NoStepVerdict

SpecLeafFirstLevel == InitLeafFirstLevel /\ [][NextLeafKey]_vars

\* ------------------ gates "Previous level RLC" and "... (after placeholder)"
\* Witnesses with a parent branch that may be a placeholder on the configured
\* side: the branch above it (its accumulator, selectors and nibble count, or
\* the first storage level), the denoter cells of the key row, key.rlc and
\* the key row vary.  The placeholder branch continues the branch above by
\* one nibble.  acc_s of the row is the honest one.
InitLeafAfterPlaceholder ==
    \E s2 \in {32, 130, 161}, b0 \in {32, 49, 130, 161}, b1 \in {32, 49},
       f1 \in 0..1, f2 \in 0..1, odd \in BOOLEAN, first \in 0..1, ph \in 0..1,
       s \in BOOLEAN, nibbles \in (c64 - NibbleSpread)..c64 :
        LET raw == [s_rlp1 |-> IF f1 = 1 /\ f2 = 0 THEN 248 ELSE 226, s_rlp2 |-> s2,
                    bytes |-> Bytes32(b0, b1, 9, 5), c_rlp1 |-> 11, c_rlp2 |-> 13]
            a1  == IF odd THEN 1 ELSE 0
            a2  == 1 - a1
            ab  == Above(first, a1, a2, nibbles, 3, FMul(r, r))
            br  == Branch(a2, a1, IF s THEN ph ELSE 0, IF s THEN 0 ELSE ph,
                          nibbles + 1, 7, r)
            pre == KeyRow(raw, f1, f2, 0, 0, 0, 0, 0)
            acc(start, mult, sel1, sel2) ==
                IF f1 = 1 /\ f2 = 0 THEN key_rlc_acc_long(start, mult, sel1, sel2, pre)
                ELSE key_rlc_acc_short(start, mult, sel1, sel2, pre)
        IN  \E d \in {<<ab.key_rlc, ab.key_mult>>, <<0, 1>>, <<br.key_rlc, br.key_mult>>},
               krlc \in {acc(ab.key_rlc, ab.key_mult, a1, a2), acc(0, 1, 0, 1),
                         acc(br.key_rlc, br.key_mult, br.sel1, br.sel2)} :
                /\ pc = "assigned"
                /\ is_s = s
                /\ branch = br
                /\ above = ab
                /\ account = Account(0)
                /\ leaf_key = KeyRow(raw, f1, f2,
                                     IF f1 = f2 THEN rlc_last_level_or_one_nibble(pre)
                                     ELSE leaf_key_row_rlc(pre),
                                     HonestAccMult(raw, f1 = 1 /\ f2 = 0),
                                     krlc, d[1], d[2])
                /\ leaf_value = NoValueRow
                /\ keccak = {}
                /\ key_gate = NoKeyVerdict
                /\ value_gate = NoValueVerdict
                /\ lookups = {}
                /\ drifted = NoDriftedRows
                /\ drifted_gate = NoDriftedVerdict
                /\ step = NoStep
                /\ step_gate = NoStepVerdict

SpecLeafAfterPlaceholder == InitLeafAfterPlaceholder /\ [][NextLeafKey]_vars

\* The leaf key row satisfies every gate and lookup of the Leaf Key Gate.
KeyAccepted ==
    /\ pc = "key_checked"
    /\ key_gate.rlc /\ key_gate.mult /\ key_gate.key /\ key_gate.first_level
    /\ key_gate.prev_level /\ key_gate.after_placeholder /\ key_gate.range

\* ------------------------------------------------------- leaf value row
\* In the operators below `row` is the leaf value row and `key` the leaf key
\* row above it (rot_key = -1).

\* rlc::expr(expressions, r): expressions[0] + sum of expressions[i] * r^i
rlc_expr(values) == FSum([i \in 1..Len(values) |-> FMul(values[i], RPow(i - 1))])

\* ifx!{cond => {a} elsex {b}} used as an expression
select(cond, a, b) == FAdd(FMul(cond, a), FMul(not(cond), b))

\* matchx!{c_1 => {..}, .., c_n => {..}} under the condition cond; `cases` is
\* the sequence of <<c_i, residual of the requirement of case i>>.  The
\* requirement of a case is enabled by its condition, all conditions need to
\* be boolean and exactly one case needs to be enabled.
matchx(cond, cases) ==
    /\ \A i \in 1..Len(cases) : constraint(FMul(cond, cases[i][1]), cases[i][2])
    /\ \A i \in 1..Len(cases) : constraint(cond, FMul(cases[i][1], not(cases[i][1])))
    /\ constraint(cond, FSub(FSum([i \in 1..Len(cases) |-> cases[i][1]]), 1))

is_leaf_placeholder(row, br, ac) ==
    FAdd(row.sel, FMul(not(ac.is_account_leaf_in_added_branch),
                       br.is_modified_node_empty))

has_no_nibble(key) == FMul(key.flag1, key.flag2)
has_one_nibble(key) == FMul(not(key.flag1), not(key.flag2))
is_leaf_long(key) == FMul(key.flag1, not(key.flag2))
is_leaf_short(key) == FMul(not(key.flag1), key.flag2)

\* require!(is_short => bool); require!(is_long => bool);
\* require!(is_short + is_long => 1)
value_type_constraints(row) ==
    /\ FMul(row.is_short, not(row.is_short)) = 0
    /\ FMul(row.is_long, not(row.is_long)) = 0
    /\ FSub(FAdd(row.is_short, row.is_long), 1) = 0

new_value_rlc(row) == select(row.is_short, row.s_rlp1, rlc_expr(row.bytes))

\* The leaf RLC of a long value without its second RLP byte.
new_leaf_rlc_without_s_rlp2(row, key) ==
    LET mult_prev == key.acc_s_mult
    IN  select(row.is_short,
               FMul(row.s_rlp1, mult_prev),
               rlc_expr(<<FMul(row.s_rlp1, mult_prev),
                          FMul(rlc_expr(row.bytes), mult_prev)>>))

new_leaf_rlc(row, key) ==
    LET mult_prev == key.acc_s_mult
    IN  select(row.is_short,
               FMul(row.s_rlp1, mult_prev),
               rlc_expr(<<FMul(row.s_rlp1, mult_prev),
                          FMul(row.s_rlp2, mult_prev),
                          FMul(rlc_expr(row.bytes), mult_prev)>>))

\* require!(value_rlc => new_value_rlc);
\* require!(leaf_rlc => leaf_rlc.prev() + new_leaf_rlc)
value_rlc_constraints(row, key) ==
    /\ FSub(row.acc_c_rlc, new_value_rlc(row)) = 0
    /\ FSub(row.acc_s_rlc, FAdd(key.acc_s_rlc, new_leaf_rlc(row, key))) = 0

\* value_rlc.prev(): acc_c.rlc at rot_s (the row itself for S, the S value
\* row for C)
value_rlc_prev(s, row) == IF s THEN row.acc_c_rlc ELSE row.acc_c_rlc_s
\* The cells of the external lookups without the copy of the S value RLC.
external_lookup_constraints_no_value_prev(s, row, key) ==
    s \/ /\ FSub(row.key_mult, key.key_rlc) = 0
         /\ FSub(row.value, row.acc_c_rlc) = 0

\* The cells of the external lookups (C row only)
external_lookup_constraints(s, row, key) ==
    s \/ /\ FSub(row.key_mult, key.key_rlc) = 0
         /\ FSub(row.value_prev, value_rlc_prev(s, row)) = 0
         /\ FSub(row.value, row.acc_c_rlc) = 0

short_remainder(key) ==
    FSub(FAdd(FSub(FSub(key.s_rlp1, 192), key.s_rlp2), 128), 1)

long_remainder(key) == FSub(FAdd(FSub(key.s_rlp2, Byte(key, 0)), 128), 1)

long_value_len(row) == FAdd(FAdd(FSub(row.s_rlp2, 128), 1), 1)

\* The RLP checks with the remainder of a long key used for a short key under
\* a long value.
rlp_constraints_long_remainder(row, key, br, ac) ==
    LET on == not(is_leaf_placeholder(row, br, ac))
    IN  /\ matchx(FMul(on, row.is_short),
                  << <<is_leaf_short(key), FSub(short_remainder(key), 1)>>,
                     <<FAdd(has_no_nibble(key), has_one_nibble(key)),
                       FSub(key.s_rlp1, 194)>> >>)
        /\ matchx(FMul(on, not(row.is_short)),
                  << <<is_leaf_short(key),
                       FSub(long_remainder(key), long_value_len(row))>>,
                     <<is_leaf_long(key),
                       FSub(long_remainder(key), long_value_len(row))>>,
                     <<FAdd(has_no_nibble(key), has_one_nibble(key)),
                       FSub(key.s_rlp1, FAdd(FAdd(192, 1), long_value_len(row)))>> >>)

\* The RLP checks with a case for a long key under a short value.
rlp_constraints_long_key_short_value(row, key, br, ac) ==
    LET on == not(is_leaf_placeholder(row, br, ac))
    IN  /\ matchx(FMul(on, row.is_short),
                  << <<is_leaf_short(key), FSub(short_remainder(key), 1)>>,
                     <<is_leaf_long(key), 0>>,
                     <<FAdd(has_no_nibble(key), has_one_nibble(key)),
                       FSub(key.s_rlp1, 194)>> >>)
        /\ matchx(FMul(on, not(row.is_short)),
                  << <<is_leaf_short(key),
                       FSub(short_remainder(key), long_value_len(row))>>,
                     <<is_leaf_long(key),
                       FSub(long_remainder(key), long_value_len(row))>>,
                     <<FAdd(has_no_nibble(key), has_one_nibble(key)),
                       FSub(key.s_rlp1, FAdd(FAdd(192, 1), long_value_len(row)))>> >>)

\* "Make sure the RLP encoding is correct"
rlp_constraints(row, key, br, ac) ==
    LET on == not(is_leaf_placeholder(row, br, ac))
    IN  /\ matchx(FMul(on, row.is_short),
                  << <<is_leaf_short(key), FSub(short_remainder(key), 1)>>,
                     <<FAdd(has_no_nibble(key), has_one_nibble(key)),
                       FSub(key.s_rlp1, 194)>> >>)
        /\ matchx(FMul(on, not(row.is_short)),
                  << <<is_leaf_short(key),
                       FSub(short_remainder(key), long_value_len(row))>>,
                     <<is_leaf_long(key),
                       FSub(long_remainder(key), long_value_len(row))>>,
                     <<FAdd(has_no_nibble(key), has_one_nibble(key)),
                       FSub(key.s_rlp1, FAdd(FAdd(192, 1), long_value_len(row)))>> >>)

\* helpers::get_leaf_len(meta, s_main, accs, rot): the length of the leaf,
\* from s_rlp2 of a long leaf and from s_rlp1 otherwise.
get_leaf_len(key) ==
    select(is_leaf_long(key),
           FAdd(FAdd(key.s_rlp2, 1), 1),
           FAdd(FSub(key.s_rlp1, 192), 1))

empty_trie_hash ==
    <<86, 232, 31, 23, 27, 204, 85, 166, 255, 131, 69, 230, 146, 192, 248, 110, 91,
      72, 224, 27, 153, 108, 173, 192, 1, 98, 47, 181, 227, 99, 180, 33>>

\* The comparison with the empty trie hash stopping one byte early.
empty_trie_constraints_short(row, ac) ==
    LET on == FMul(ac.is_account_leaf_in_added_branch, row.sel)
    IN  \A i \in 1..(HASH_WIDTH - 1) :
            constraint(on, FSub(ac.storage_root[i], empty_trie_hash[i]))

\* "Hash of the only storage leaf which is placeholder requires empty storage
\* root"
empty_trie_constraints(row, ac) ==
    LET on == FMul(ac.is_account_leaf_in_added_branch, row.sel)
    IN  \A i \in 1..HASH_WIDTH :
            constraint(on, FSub(ac.storage_root[i], empty_trie_hash[i]))

\* ifx!{not_first_level, not!(is_modified_node_empty)} in the branch where
\* the account leaf is not directly above
in_parent_branch(row, br, ac) ==
    FMul3(not(ac.is_account_leaf_in_added_branch), row.not_first_level,
          not(br.is_modified_node_empty))

\* not_hashed = a!(accs.acc_c.rlc, -1)
not_hashed(key) == key.acc_c_rlc

\* "Non-hashed leaf in parent"
non_hashed_constraints(s, row, key, br, ac) ==
    constraint(FMul3(in_parent_branch(row, br, ac), not(is_branch_placeholder(s, br)),
                     not_hashed(key)),
               FSub(row.acc_s_rlc, br.mod_node_rlc))

\* The values a lookup under the condition cond brings to the Keccak table:
\* (cond * 1, cond * input_rlc, cond * input_len, cond * output_rlc).
keccak_input(cond, input_rlc, input_len, output_rlc) ==
    IF cond = 0 THEN <<0, 0, 0, 0>>
    ELSE <<cond, FMul(cond, input_rlc), FMul(cond, input_len),
           FMul(cond, output_rlc)>>

\* "Leaf hash in parent"
leaf_hash_in_parent_lookup(s, row, key, br, ac) ==
    keccak_input(FMul3(in_parent_branch(row, br, ac),
                       not(is_branch_placeholder(s, br)), not(not_hashed(key))),
                 row.acc_s_rlc, get_leaf_len(key), br.mod_node_rlc)

\* The lookup under a placeholder branch taking the child the placeholder
\* branch itself stores.
leaf_hash_in_parent_placeholder_own_child(s, row, key, br, ab, ac) ==
    keccak_input(FMul3(in_parent_branch(row, br, ac), is_branch_placeholder(s, br),
                       not(ab.is_account_leaf_in_added_branch)),
                 FAdd(key.acc_s_rlc,
                      rlc_expr([i \in 1..(HASH_WIDTH + 2) |->
                                  FMul((<<row.s_rlp1, row.s_rlp2>> \o row.bytes)[i],
                                       key.acc_s_mult)])),
                 get_leaf_len(key), br.mod_node_rlc)
\* The lookup under a placeholder branch issued also when the account leaf
\* is above the placeholder branch.
leaf_hash_in_parent_placeholder_lookup_any_level(s, row, key, br, ab, ac) ==
    keccak_input(FMul(in_parent_branch(row, br, ac), is_branch_placeholder(s, br)),
                 FAdd(key.acc_s_rlc,
                      rlc_expr([i \in 1..(HASH_WIDTH + 2) |->
                                  FMul((<<row.s_rlp1, row.s_rlp2>> \o row.bytes)[i],
                                       key.acc_s_mult)])),
                 get_leaf_len(key), ab.mod_node_rlc)

\* "Leaf hash in parent (branch placeholder)"
leaf_hash_in_parent_placeholder_lookup(s, row, key, br, ab, ac) ==
    keccak_input(FMul3(in_parent_branch(row, br, ac), is_branch_placeholder(s, br),
                       not(ab.is_account_leaf_in_added_branch)),
                 FAdd(key.acc_s_rlc,
                      rlc_expr([i \in 1..(HASH_WIDTH + 2) |->
                                  FMul((<<row.s_rlp1, row.s_rlp2>> \o row.bytes)[i],
                                       key.acc_s_mult)])),
                 get_leaf_len(key), ab.mod_node_rlc)

\* The storage root lookup reading the storage root one level further up.
storage_root_lookup_prev_root(row, key, ac) ==
    keccak_input(FMul3(row.not_first_level, ac.is_account_leaf_in_added_branch,
                       not(row.sel)),
                 row.acc_s_rlc, get_leaf_len(key), rlc_expr(ac.storage_root_prev))

\* "Hash of the only storage leaf is storage trie root"
storage_root_lookup(row, key, ac) ==
    keccak_input(FMul3(row.not_first_level, ac.is_account_leaf_in_added_branch,
                       not(row.sel)),
                 row.acc_s_rlc, get_leaf_len(key), rlc_expr(ac.storage_root))

\* "Hash of the only storage leaf which is after a placeholder is storage trie
\* root"
storage_root_after_placeholder_lookup(s, row, key, br, ab, ac) ==
    keccak_input(FMul(FMul(row.not_first_level, not(ac.is_account_leaf_in_added_branch)),
                      FMul(ab.is_account_leaf_in_added_branch,
                           is_branch_placeholder(s, br))),
                 row.acc_s_rlc, get_leaf_len(key), rlc_expr(ac.storage_root_prev))

\* Every require!(.. => @"keccak") of the gate.
keccak_lookups(s, row, key, br, ab, ac) ==
    {leaf_hash_in_parent_lookup(s, row, key, br, ac),
     leaf_hash_in_parent_placeholder_lookup(s, row, key, br, ab, ac),
     storage_root_lookup(row, key, ac),
     storage_root_after_placeholder_lookup(s, row, key, br, ab, ac)}

\* The rows of the Keccak table: the disabled row and (1, input rlc, input
\* length, output rlc) per hash.
keccak_table_rows(table) ==
    {<<0, 0, 0, 0>>} \cup {<<1, t[1], t[2], t[3]>> : t \in table}

\* The leaf value row is checked: every requirement of
\* LeafValueConfig::configure is evaluated and its lookups are issued.
VerifyLeafValue ==
    /\ pc = "assigned"
    /\ pc' = "value_checked"
    /\ LET issued == keccak_lookups(is_s, leaf_value, leaf_key, branch, above, account)
       IN  /\ lookups' = issued \ {<<0, 0, 0, 0>>}
           /\ value_gate' =
                [type |-> value_type_constraints(leaf_value),
                 rlc |-> value_rlc_constraints(leaf_value, leaf_key),
                 external |-> external_lookup_constraints(is_s, leaf_value, leaf_key),
                 rlp |-> rlp_constraints(leaf_value, leaf_key, branch, account),
                 empty_trie |-> empty_trie_constraints(leaf_value, account),
                 non_hashed |->
                     non_hashed_constraints(is_s, leaf_value, leaf_key, branch, account),
                 keccak |-> issued \subseteq keccak_table_rows(keccak)]
    /\ UNCHANGED <<is_s, branch, above, account, leaf_key, leaf_value, keccak,
                   key_gate, drifted, drifted_gate, step, step_gate>>

NextLeafValue == VerifyLeafValue

\* The leaf value row satisfies every requirement and lookup of the Leaf
\* Value Gate.
ValueAccepted ==
    /\ pc = "value_checked"
    /\ value_gate.type /\ value_gate.rlc /\ value_gate.external /\ value_gate.rlp
    /\ value_gate.empty_trie /\ value_gate.non_hashed /\ value_gate.keccak

\* ---------------------------------------------- witnesses of the value row
ValueRow(s1, s2, bytes, long, short) ==
    [s_rlp1 |-> s1, s_rlp2 |-> s2, bytes |-> bytes, is_long |-> long,
     is_short |-> short, acc_s_rlc |-> 0, acc_c_rlc |-> 0, acc_c_rlc_s |-> 0,
     sel |-> 0, key_mult |-> 0, value_prev |-> 0, value |-> 0,
     not_first_level |-> 1]

\* A key row holding the cells the value gate reads: the RLP prefix, the first
\* byte, the flags, acc_s (rlc, mult) as the gate "Storage leaf RLC" and its
\* multiplier lookups leave them, acc_c.rlc (not_hashed) and key.rlc.
KeyRowAbove(s1, s2, b0, f1, f2, nh) ==
    LET raw == [s_rlp1 |-> s1, s_rlp2 |-> s2, bytes |-> Bytes32(b0, 0, 0, 0),
                c_rlp1 |-> 0, c_rlp2 |-> 0]
        pre == KeyRow(raw, f1, f2, 0, 0, 7, 3, 1)
    IN  [pre EXCEPT !.acc_s_rlc = IF f1 = f2 THEN rlc_last_level_or_one_nibble(pre)
                                  ELSE leaf_key_row_rlc(pre),
                    !.acc_s_mult = IF f1 = f2 THEN RPow(2)
                                   ELSE HonestAccMult(raw, f1 = 1 /\ f2 = 0),
                    !.acc_c_rlc = nh]

\* The value row with the accumulators and the cells of the external lookups
\* filled in.
WithAccs(row, acc_s, acc_c, key) ==
    [row EXCEPT !.acc_s_rlc = acc_s, !.acc_c_rlc = acc_c, !.acc_c_rlc_s = 11,
                !.key_mult = key.key_rlc, !.value_prev = 11, !.value = acc_c]

\* acc_s.rlc / acc_c.rlc an honest prover stores for a short / long value.
HonestLeafRlc(row, key, short) ==
    FAdd(key.acc_s_rlc,
         new_leaf_rlc([row EXCEPT !.is_short = IF short THEN 1 ELSE 0], key))

HonestValueRlc(row, short) ==
    new_value_rlc([row EXCEPT !.is_short = IF short THEN 1 ELSE 0])

\* ---------------------------------------- value row: leaf RLC and value RLC
\* Witnesses varying the value bytes, the value flags and the accumulators of
\* the value row, under a one_nibble key row whose declared length fits the
\* value and a parent branch that stores the leaf RLC unhashed.
InitValueRlc ==
    \E s1 \in {1, 131}, s2 \in {0, 130}, b0 \in {0, 7}, b1 \in {0, 9}, b31 \in {0, 5},
       long \in 0..FlagMax, short \in 0..FlagMax, s \in BOOLEAN :
        LET raw == ValueRow(s1, s2, Bytes32(b0, b1, 0, b31), long, short)
            key == KeyRowAbove(IF short = 1 THEN 194
                               ELSE FAdd(FAdd(192, 1), long_value_len(raw)),
                               49, 0, 0, 0, 1)
        IN  \E acc_s \in {HonestLeafRlc(raw, key, TRUE), HonestLeafRlc(raw, key, FALSE),
                          key.acc_s_rlc},
               acc_c \in {HonestValueRlc(raw, TRUE), HonestValueRlc(raw, FALSE),
                          FAdd(HonestValueRlc(raw, FALSE), 1)} :
                /\ pc = "assigned"
                /\ is_s = s
                /\ branch = [Branch(1, 0, 0, 0, 63, 7, r) EXCEPT !.mod_node_rlc = acc_s]
                /\ above = Above(0, 0, 1, 0, 3, 1)
                /\ account = Account(0)
                /\ leaf_key = key
                /\ leaf_value = WithAccs(raw, acc_s, acc_c, key)
                /\ keccak = {}
                /\ key_gate = NoKeyVerdict
                /\ value_gate = NoValueVerdict
                /\ lookups = {}
                /\ drifted = NoDriftedRows
                /\ drifted_gate = NoDriftedVerdict
                /\ step = NoStep
                /\ step_gate = NoStepVerdict

SpecValueRlc == InitValueRlc /\ [][NextLeafValue]_vars

\* ------------------------------------------- value row: RLP length checks
\* Witnesses varying the lengths the key row and the value row declare, the
\* key and value variants and the placeholder flags; the accumulators are
\* the honest ones and the parent branch stores the leaf RLC unhashed.
InitValueRlp ==
    \E k1 \in {194, 196, 197, 199, 227, 229, 248}, k2 \in {7, 32, 37, 130},
       kb0 \in {32, 130}, f1 \in 0..1, f2 \in 0..1,
       short \in BOOLEAN, v2 \in {130, 160}, empty \in 0..1, s \in BOOLEAN :
        LET raw == ValueRow(IF short THEN 17 ELSE v2 + 1, IF short THEN 0 ELSE v2,
                            Bytes32(IF short THEN 0 ELSE 7, 0, 0, 0),
                            IF short THEN 0 ELSE 1, IF short THEN 1 ELSE 0)
            key == KeyRowAbove(k1, k2, kb0, f1, f2, 1)
        IN  \E acc_s \in {HonestLeafRlc(raw, key, short)} :
                /\ pc = "assigned"
                /\ is_s = s
                /\ branch = [Branch(1, 0, 0, 0, 63, 7, r)
                                EXCEPT !.mod_node_rlc = acc_s,
                                       !.is_modified_node_empty = empty]
                /\ above = Above(0, 0, 1, 0, 3, 1)
                /\ account = Account(0)
                /\ leaf_key = key
                /\ leaf_value = WithAccs(raw, acc_s, HonestValueRlc(raw, short), key)
                /\ keccak = {}
                /\ key_gate = NoKeyVerdict
                /\ value_gate = NoValueVerdict
                /\ lookups = {}
                /\ drifted = NoDriftedRows
                /\ drifted_gate = NoDriftedVerdict
                /\ step = NoStep
                /\ step_gate = NoStepVerdict

SpecValueRlp == InitValueRlp /\ [][NextLeafValue]_vars

\* -------------------------------------------- value row: leaf in parent
\* An output RLC of the Keccak table.
HashRlc == 77

\* (s_rlp1, s_rlp2) of short key rows holding a one byte value: leaves of
\* 5, 31, 32 and 35 bytes.
ShortLeafPrefixes == {<<196, 130>>, <<222, 156>>, <<223, 157>>, <<226, 160>>}

\* A short leaf with a short value, and a long leaf (69 bytes) with a long
\* value.
LeafPairs ==
    {[key |-> KeyRowAbove(p[1], p[2], 32, 0, 1, 0),
      value |-> ValueRow(17, 0, ZeroBytes, 0, 1)] : p \in ShortLeafPrefixes}
    \cup {[key |-> KeyRowAbove(248, 67, 160, 1, 0, 0),
           value |-> ValueRow(161, 160, Bytes32(7, 0, 0, 0), 1, 0)]}

\* Witnesses varying the length of the leaf, the not_hashed cell, the flags of
\* the levels above, the modified child the parent stores and the Keccak
\* table; the rows themselves are honest.
InitValueParent ==
    \E pair \in LeafPairs, nh \in 0..1, nfl \in 0..1, empty \in 0..1, ph \in 0..1,
       above_branch \in 0..1, stored_hash \in BOOLEAN, s \in BOOLEAN :
        LET key == [pair.key EXCEPT !.acc_c_rlc = nh]
            raw == [pair.value EXCEPT !.not_first_level = nfl]
        IN  \E acc_s \in {HonestLeafRlc(raw, key, raw.is_short = 1)} :
            \E table \in {{}, {<<acc_s, get_leaf_len(key), HashRlc>>},
                          {<<acc_s, FAdd(get_leaf_len(key), 1), HashRlc>>}} :
                /\ pc = "assigned"
                /\ is_s = s
                /\ branch = [Branch(1, 0, IF s THEN ph ELSE 0, IF s THEN 0 ELSE ph,
                                    63, 7, r)
                                EXCEPT !.mod_node_rlc =
                                           IF stored_hash THEN HashRlc ELSE acc_s,
                                       !.is_modified_node_empty = empty]
                /\ above = [Above(0, 0, 1, 0, 3, 1)
                                EXCEPT !.mod_node_rlc = HashRlc,
                                       !.is_account_leaf_in_added_branch = above_branch]
                /\ account = [Account(0)
                                EXCEPT !.storage_root_prev = Bytes32(HashRlc, 0, 0, 0)]
                /\ leaf_key = key
                /\ leaf_value = WithAccs(raw, acc_s,
                                         HonestValueRlc(raw, raw.is_short = 1), key)
                /\ keccak = table
                /\ key_gate = NoKeyVerdict
                /\ value_gate = NoValueVerdict
                /\ lookups = {}
                /\ drifted = NoDriftedRows
                /\ drifted_gate = NoDriftedVerdict
                /\ step = NoStep
                /\ step_gate = NoStepVerdict

SpecValueParent == InitValueParent /\ [][NextLeafValue]_vars

\* ------------------------------- value row: account leaf directly above
\* The storage roots tried: the empty trie hash, the empty trie hash with one
\* byte changed, and zeros.
StorageRoots ==
    {empty_trie_hash, ZeroBytes}
    \cup {[empty_trie_hash EXCEPT ![k] = (@ + 1) % 256] : k \in 1..HASH_WIDTH}

\* Witnesses with the account leaf directly above the storage leaf, varying
\* the storage root of the account, the placeholder flag of the leaf and the
\* Keccak table.
InitValueRoot ==
    \E root \in StorageRoots, placeholder \in 0..1, nfl \in 0..1, empty \in 0..1,
       hashed \in BOOLEAN, s \in BOOLEAN :
        LET key == KeyRowAbove(226, 160, 32, 0, 1, 0)
            raw == [ValueRow(17, 0, ZeroBytes, 0, 1)
                        EXCEPT !.not_first_level = nfl, !.sel = placeholder]
        IN  \E acc_s \in {HonestLeafRlc(raw, key, TRUE)} :
                /\ pc = "assigned"
                /\ is_s = s
                /\ branch = [Branch(1, 0, 0, 0, 63, 7, r)
                                EXCEPT !.is_modified_node_empty = empty]
                /\ above = Above(0, 0, 1, 0, 3, 1)
                /\ account = [Account(1) EXCEPT !.storage_root = root]
                /\ leaf_key = key
                /\ leaf_value = WithAccs(raw, acc_s, HonestValueRlc(raw, TRUE), key)
                /\ keccak = IF hashed
                            THEN {<<acc_s, get_leaf_len(key), rlc_expr(root)>>}
                            ELSE {}
                /\ key_gate = NoKeyVerdict
                /\ value_gate = NoValueVerdict
                /\ lookups = {}
                /\ drifted = NoDriftedRows
                /\ drifted_gate = NoDriftedVerdict
                /\ step = NoStep
                /\ step_gate = NoStepVerdict

SpecValueRoot == InitValueRoot /\ [][NextLeafValue]_vars

\* ------------------------------------ value row: what the leaf hashes into
\* Witnesses in which the child the parent branch stores, the child the branch
\* above it stores, the storage root of the account and the storage root one
\* level further up are four different values, varying which of the levels
\* above are the account leaf, the placeholder flags, the not_hashed cell and
\* the output the Keccak table holds for the leaf.
InitValueLinkage ==
    \E pair \in LeafPairs, nh \in 0..1, nfl \in 0..1, empty \in 0..1, ph \in 0..1,
       leaf_ph \in 0..1, above_leaf \in 0..1, above_branch \in 0..1, s \in BOOLEAN :
        LET key == [pair.key EXCEPT !.acc_c_rlc = nh]
            raw == [pair.value EXCEPT !.not_first_level = nfl, !.sel = leaf_ph]
        IN  \E acc_s \in {HonestLeafRlc(raw, key, raw.is_short = 1)} :
            \E table \in {{}} \cup {{<<acc_s, get_leaf_len(key), HashRlc + k>>} :
                                        k \in 0..3} :
                /\ pc = "assigned"
                /\ is_s = s
                /\ branch = [Branch(1, 0, IF s THEN ph ELSE 0, IF s THEN 0 ELSE ph,
                                    63, 7, r)
                                EXCEPT !.mod_node_rlc = HashRlc,
                                       !.is_modified_node_empty = empty]
                /\ above = [Above(0, 0, 1, 0, 3, 1)
                                EXCEPT !.mod_node_rlc = HashRlc + 1,
                                       !.is_account_leaf_in_added_branch = above_branch]
                /\ account = [Account(above_leaf)
                                EXCEPT !.storage_root = Bytes32(HashRlc + 2, 0, 0, 0),
                                       !.storage_root_prev = Bytes32(HashRlc + 3, 0, 0, 0)]
                /\ leaf_key = key
                /\ leaf_value = WithAccs(raw, acc_s,
                                         HonestValueRlc(raw, raw.is_short = 1), key)
                /\ keccak = table
                /\ key_gate = NoKeyVerdict
                /\ value_gate = NoValueVerdict
                /\ lookups = {}
                /\ drifted = NoDriftedRows
                /\ drifted_gate = NoDriftedVerdict
                /\ step = NoStep
                /\ step_gate = NoStepVerdict

SpecValueLinkage == InitValueLinkage /\ [][NextLeafValue]_vars

\* ------------------------------------------- account leaf: drifted leaf row
\* In the operators below `d` holds the drifted leaf row (ACCOUNT_DRIFTED_LEAF)
\* and the cells its gate reads in the other rows: the branch init row, the
\* branch children, the extension row, the branch above, and the key, nonce /
\* balance and storage / codehash rows of the account leaf on both sides.

\* rlc::expr(expressions, randomness): expressions[0] + sum of
\* expressions[i] * randomness[i - 1]
rlc_expr_rand(values, rand) ==
    FSum([i \in 1..Len(values) |->
            IF i = 1 THEN values[1] ELSE FMul(values[i], rand[i - 1])])

\* extend_rand(&r): r[0..31] followed by r[31] * r[0..31], i.e. r^1 .. r^64
extend_rand == [i \in 1..(2 * HASH_WIDTH) |-> RPow(i)]

\* accumulate_rand(rs): the running products of rs
RECURSIVE accumulate_rand(_)
accumulate_rand(rs) ==
    IF Len(rs) = 0 THEN <<>>
    ELSE LET head == accumulate_rand(SubSeq(rs, 1, Len(rs) - 1))
         IN  Append(head, IF Len(head) = 0 THEN rs[1]
                          ELSE FMul(head[Len(head)], rs[Len(rs)]))

\* rlc of the 36 cells of the drifted row
drifted_row_rlc(d) == rlc_expr_rand(Cells(d), extend_rand)

is_branch_placeholder_in_first_level(d) == not(d.not_first_level)
\* key_rlc_cur that takes the branch above also below an extension node.
key_rlc_cur_branch_above_only(d) ==
    FMul(not(is_branch_placeholder_in_first_level(d)), d.above_key_rlc)

key_rlc_cur(d) ==
    select(d.is_ext_node, d.ext_key_rlc,
           FMul(not(is_branch_placeholder_in_first_level(d)), d.above_key_rlc))

branch_above_placeholder_mult(d) ==
    select(is_branch_placeholder_in_first_level(d), 1, d.above_key_mult)

key_rlc_mult(d) ==
    FMul(branch_above_placeholder_mult(d),
         select(d.is_ext_node,
                select(d.is_ext_one_nibble, select(d.is_c1, 1, r_table(0)),
                       d.mult_diff),
                1))
\* drifted_pos_mult without the is_c1 term.
drifted_pos_mult_c16_only(d) == FMul3(key_rlc_mult(d), 16, d.is_c16)

drifted_pos_mult(d) ==
    FAdd(FMul3(key_rlc_mult(d), 16, d.is_c16), FMul(key_rlc_mult(d), d.is_c1))

\* key_rlc of the drifted leaf: cells 3..35 of the row (s_main.bytes[1..31],
\* c_main.rlp1, c_main.rlp2), each times key_rlc_mult
drifted_key_rlc(d) ==
    LET cells == SubSeq(Cells(d), 4, 36)
    IN  FAdd(FAdd(key_rlc_cur(d), FMul(d.drifted_pos, drifted_pos_mult(d))),
             rlc_expr_rand(
                 [idx \in 1..Len(cells) |->
                    FMul(key_rlc_mult(d),
                         IF idx = 1 THEN FMul(FSub(cells[idx], 48), d.is_c16)
                         ELSE cells[idx])],
                 extend_rand))

\* The rows of the account leaf on one side.
AccountSide(d, s) ==
    IF s THEN [key |-> d.key_s, nonce |-> d.nonce_s, storage |-> d.storage_s,
               is_branch_placeholder |-> d.is_branch_s_placeholder,
               mod_node_hash_rlc |-> d.s_mod_node_rlc]
    ELSE [key |-> d.key_c, nonce |-> d.nonce_c, storage |-> d.storage_c,
          is_branch_placeholder |-> d.is_branch_c_placeholder,
          mod_node_hash_rlc |-> d.c_mod_node_rlc]

nonce_rlc(side) ==
    select(side.key.is_nonce_long,
           rlc_expr_rand(<<side.nonce.s_byte0, side.nonce.nonce_stored>>, <<RPow(1)>>),
           side.nonce.nonce_stored)

balance_rlc(side) ==
    select(side.key.is_balance_long,
           rlc_expr_rand(<<side.nonce.c_byte0, side.nonce.balance_stored>>, <<RPow(1)>>),
           side.nonce.balance_stored)

\* RLC of the whole drifted account leaf on one side: the intermediate RLC of
\* the drifted row plus acc_s.mult times the nonce / balance and storage root
\* / codehash fields of that side.
drifted_account_rlc(d, side) ==
    LET values == <<side.nonce.s_rlp1, side.nonce.s_rlp2, side.nonce.c_rlp1,
                    side.nonce.c_rlp2, nonce_rlc(side), balance_rlc(side),
                    side.storage.s_rlp2, side.storage.storage_root_stored,
                    side.storage.c_rlp2, side.storage.codehash_stored>>
        rand == <<r_table(0), r_table(1), r_table(2), r_table(3)>> \o
                accumulate_rand(<<side.nonce.mult_diff_nonce,
                                  side.nonce.mult_diff_balance,
                                  r_table(0), r_table(31), r_table(0)>>)
    IN  FAdd(d.acc_s_rlc,
             rlc_expr_rand([i \in 1..Len(values) |-> FMul(values[i], d.acc_s_mult)],
                           rand))
\* account_len that counts one byte only for the RLP prefix.
account_len_one_prefix_byte(d) == FAdd(d.s_rlp2, 1)

\* account_len = s_main.rlp2 + 1 + 1
account_len(d) == FAdd(FAdd(d.s_rlp2, 1), 1)

\* require!((rlc, account_len, mod_node_hash_rlc) => @keccak) of one side,
\* under q_enable and that side's placeholder flag.
drifted_keccak_lookup(d, s) ==
    LET side == AccountSide(d, s)
    IN  keccak_input(FMul(d.q_enable, side.is_branch_placeholder),
                     drifted_account_rlc(d, side), account_len(d),
                     side.mod_node_hash_rlc)

\* for is_s in [false, true]
drifted_keccak_lookups(d) ==
    {drifted_keccak_lookup(d, FALSE), drifted_keccak_lookup(d, TRUE)}

\* sel = q_enable * (is_branch_s_placeholder + is_branch_c_placeholder)
drifted_sel(d) ==
    FMul(d.q_enable, FAdd(d.is_branch_s_placeholder, d.is_branch_c_placeholder))

\* helpers::key_len_lookup(meta, q_enable, ind, key_len_col, column,
\* len_offset, fixed_table): under q_enable the cell of `column` is zero
\* unless ind lies within the key length key_len_col - len_offset.
key_len_lookup(q_enable, ind, key_len, cell, len_offset) ==
    q_enable # 0 => (cell = 0 \/ key_len - len_offset >= ind)

\* if check_zeros { .. }: s_main.bytes[1..31] under q_enable, c_main.rlp1 and
\* c_main.rlp2 under sel
drifted_key_len_lookups(d) ==
    d.check_zeros =>
        /\ \A ind \in 1..(HASH_WIDTH - 1) :
              key_len_lookup(d.q_enable, ind, Byte(d, 0), Byte(d, ind), 128)
        /\ key_len_lookup(drifted_sel(d), 32, Byte(d, 0), d.c_rlp1, 128)
        /\ key_len_lookup(drifted_sel(d), 33, Byte(d, 0), d.c_rlp2, 128)

\* ifx!{is_branch_s_placeholder => require!(leaf_key_s_rlc => key_rlc)} and
\* the same for C
drifted_key_constraint(d, s) ==
    LET side == AccountSide(d, s)
    IN  constraint(FMul(drifted_sel(d), side.is_branch_placeholder),
                   FSub(side.key.key_rlc, drifted_key_rlc(d)))

\* Every constraint and lookup of AccountLeafKeyInAddedBranchConfig::configure
\* on the rows d against the Keccak table.
drifted_leaf_gate(d, table) ==
    [\* require!(s_rlp1 => 248) under q_enable and is_branch_placeholder
     rlp1 |-> constraint(drifted_sel(d), FSub(d.s_rlp1, 248)),
     \* require!(a!(accs.acc_s.rlc) => rlc)
     rlc |-> constraint(drifted_sel(d), FSub(d.acc_s_rlc, drifted_row_rlc(d))),
     \* ifx!{is_c1 => require!(a!(s_main.bytes[1]) => 32)}
     first_byte |-> constraint(FMul(drifted_sel(d), d.is_c1), FSub(Byte(d, 1), 32)),
     key_s |-> drifted_key_constraint(d, TRUE),
     key_c |-> drifted_key_constraint(d, FALSE),
     keccak |-> drifted_keccak_lookups(d) \subseteq keccak_table_rows(table),
     key_len |-> drifted_key_len_lookups(d),
     \* mult_diff_lookup(meta, sel, 3, s_main.bytes[0], accs.acc_s.mult, 128, ..)
     mult |-> mult_diff_lookup(drifted_sel(d), 3, Byte(d, 0), d.acc_s_mult, 128),
     \* range_lookups under q_enable
     range |-> d.q_enable # 0 =>
                  /\ range_lookups(d.bytes)
                  /\ range_lookups(<<d.s_rlp1, d.s_rlp2, d.c_rlp1, d.c_rlp2>>)]

\* All constraints and lookups of a drifted leaf verdict hold.
drifted_all_hold(v) ==
    /\ v.rlp1 /\ v.rlc /\ v.first_byte /\ v.key_s /\ v.key_c
    /\ v.keccak /\ v.key_len /\ v.mult /\ v.range

\* The drifted leaf row is checked: every constraint and lookup of
\* AccountLeafKeyInAddedBranchConfig::configure is evaluated.
VerifyDriftedLeaf ==
    /\ pc = "assigned"
    /\ pc' = "drifted_checked"
    /\ lookups' = drifted_keccak_lookups(drifted) \ {<<0, 0, 0, 0>>}
    /\ drifted_gate' = drifted_leaf_gate(drifted, keccak)
    /\ UNCHANGED <<is_s, branch, above, account, leaf_key, leaf_value, keccak,
                   key_gate, value_gate, drifted, step, step_gate>>

\* The drifted leaf row satisfies every constraint and lookup of its gate.
DriftedAccepted ==
    /\ pc = "drifted_checked"
    /\ drifted_all_hold(drifted_gate)

\* The cells read in the branch init row (rot_branch_init, rot_branch_init + 1)
\* and in the branch children (Rotation(-17)).
DriftedBranch(s_ph, c_ph, ext, ext_one, c16, c1, nfl, md, pos, hash_s, hash_c) ==
    [is_branch_s_placeholder |-> s_ph, is_branch_c_placeholder |-> c_ph,
     is_ext_node |-> ext, is_ext_one_nibble |-> ext_one,
     is_c16 |-> c16, is_c1 |-> c1, not_first_level |-> nfl, mult_diff |-> md,
     drifted_pos |-> pos, s_mod_node_rlc |-> hash_s, c_mod_node_rlc |-> hash_c]

\* The account leaf key row of one side.
AccountKeyRow(krlc, nonce_long, balance_long) ==
    [key_rlc |-> krlc, is_nonce_long |-> nonce_long, is_balance_long |-> balance_long]

\* The nonce / balance row of one side; the two field lengths are the
\* exponents of mult_diff_nonce and mult_diff_balance.
NonceBalanceRow(nonce, balance, nonce_len, balance_len) ==
    [s_rlp1 |-> 184, s_rlp2 |-> 70, c_rlp1 |-> 248, c_rlp2 |-> 68,
     s_byte0 |-> 129, c_byte0 |-> 130,
     nonce_stored |-> nonce, balance_stored |-> balance,
     mult_diff_nonce |-> RPow(nonce_len), mult_diff_balance |-> RPow(balance_len)]

\* The storage root / codehash row of one side.
StorageCodehashRow(root, codehash) ==
    [s_rlp2 |-> 160, c_rlp2 |-> 160,
     storage_root_stored |-> root, codehash_stored |-> codehash]

\* The rows the drifted leaf gate reads, put together; ext_rlc is key.rlc of
\* the extension row, above_rlc and above_mult are key.rlc and key.mult of the
\* branch above.
DriftedRows(cz, row, br, ext_rlc, above_rlc, above_mult, ks, kc, ns, nc, ss, sc) ==
    [q_enable |-> 1, check_zeros |-> cz, key_s |-> ks, key_c |-> kc,
     nonce_s |-> ns, nonce_c |-> nc, storage_s |-> ss, storage_c |-> sc,
     ext_key_rlc |-> ext_rlc, above_key_rlc |-> above_rlc,
     above_key_mult |-> above_mult]
    @@ row @@ br

\* Drifted key bytes: s_main.bytes[0] = b0, a key of three bytes in
\* s_main.bytes[1..3], s_main.bytes[5] = b5, zero elsewhere.
DriftedBytes(b0, b1, b5) ==
    [i \in 1..HASH_WIDTH |->
        CASE i = 1 -> b0 [] i = 2 -> b1 [] i = 3 -> 17 [] i = 4 -> 34
          [] i = 6 -> b5 [] OTHER -> 0]

\* AccountLeafKeyInAddedBranchConfig::assign: acc_s of the drifted row is the
\* RLC of its first len = key length + 3 cells and acc_mult_s is r^len
\* (cells b0, b1, b5 and c_rlp1 are chosen; a first byte below 128 counts as
\* key length 0).
HonestDriftedRow(s1, b0, b1, b5, c1) ==
    LET cells == [s_rlp1 |-> s1, s_rlp2 |-> 106, bytes |-> DriftedBytes(b0, b1, b5),
                  c_rlp1 |-> c1, c_rlp2 |-> 0]
        len == (IF b0 >= 128 THEN b0 - 128 ELSE 0) + 3
    IN  cells @@
        [acc_s_rlc |-> rlc_expr_rand(SubSeq(Cells(cells), 1, len), extend_rand),
         acc_s_mult |-> RPow(len)]

\* No storage leaf row is laid out; its gates have not been evaluated.
StorageLeafIdle ==
    /\ is_s = TRUE
    /\ branch = Branch(0, 0, 0, 0, 0, 0, 0)
    /\ above = Above(0, 0, 0, 0, 0, 0)
    /\ account = Account(0)
    /\ leaf_key = NoValueRow
    /\ leaf_value = NoValueRow
    /\ key_gate = NoKeyVerdict
    /\ value_gate = NoValueVerdict

\* The Keccak table holding the hash of the drifted account leaf of both sides.
DriftedKeccakTable(d) ==
    {<<drifted_account_rlc(d, AccountSide(d, s)), account_len(d),
       AccountSide(d, s).mod_node_hash_rlc>> : s \in BOOLEAN}

\* ------------------------------------------ drifted leaf: gate activation
\* A drifted row below a branch that is a placeholder on at most one side;
\* the prefix, the key length byte, a byte after the key, c_main.rlp1, the
\* accumulators, the stored key RLC and the Keccak table are each as the
\* prover lays them out or off.
InitDriftedActivation ==
    \E cz \in BOOLEAN, ph \in {<<0, 0>>, <<1, 0>>, <<0, 1>>},
       s1 \in {248, 247}, b0 \in {131, 0}, b1 \in {32, 49}, b5 \in {0, 7},
       c1 \in {0, 9}, parity \in 0..1, drcl \in 0..1, dmult \in 0..1,
       dkey \in 0..1, hashed \in BOOLEAN :
        LET row == HonestDriftedRow(s1, b0, b1, b5, c1)
            d0 == DriftedRows(cz,
                     [row EXCEPT !.acc_s_rlc = FAdd(@, drcl),
                                 !.acc_s_mult = IF dmult = 0 THEN @ ELSE 1],
                     DriftedBranch(ph[1], ph[2], 0, 0, parity, 1 - parity, 1, 1, 5,
                                   HashRlc, HashRlc + 1),
                     0, 3, r,
                     AccountKeyRow(0, 0, 0), AccountKeyRow(0, 0, 0),
                     NonceBalanceRow(1, 2, 1, 1), NonceBalanceRow(3, 4, 1, 1),
                     StorageCodehashRow(11, 12), StorageCodehashRow(13, 12))
            krlc == FAdd(drifted_key_rlc(d0), dkey)
            d == [d0 EXCEPT !.key_s.key_rlc = krlc, !.key_c.key_rlc = krlc]
        IN  /\ pc = "assigned"
            /\ StorageLeafIdle
            /\ keccak = IF hashed THEN DriftedKeccakTable(d) ELSE {}
            /\ lookups = {}
            /\ drifted = d
            /\ drifted_gate = NoDriftedVerdict
            /\ step = NoStep
            /\ step_gate = NoStepVerdict

SpecDriftedActivation == InitDriftedActivation /\ [][VerifyDriftedLeaf]_vars

\* ------------------------------------------------ drifted leaf: key RLC
\* A drifted row below a placeholder branch on one side; the branch is an
\* extension node or not (with one nibble or more), of either parity, in the
\* first level or below; drifted_pos and the first key byte vary; the key RLC
\* stored in the account leaf key rows is the honest one, off by one, or the
\* one with drifted_pos taken times 1 where 16 is due.
InitDriftedKey ==
    \E ph \in {<<1, 0>>, <<0, 1>>}, ext \in 0..1, ext_one \in 0..1, parity \in 0..1,
       nfl \in 0..1, pos \in {0, 5, 15}, b1 \in {32, 57}, kmult \in 1..2,
       dkey \in 0..2 :
        LET d0 == DriftedRows(TRUE, HonestDriftedRow(248, 131, b1, 0, 0),
                     DriftedBranch(ph[1], ph[2], ext, ext_one, parity, 1 - parity,
                                   nfl, RPow(2), pos, HashRlc, HashRlc + 1),
                     7, 3, RPow(kmult),
                     AccountKeyRow(0, 0, 0), AccountKeyRow(0, 0, 0),
                     NonceBalanceRow(1, 2, 1, 1), NonceBalanceRow(3, 4, 1, 1),
                     StorageCodehashRow(11, 12), StorageCodehashRow(13, 12))
            krlc == CASE dkey = 0 -> drifted_key_rlc(d0)
                      [] dkey = 1 -> FAdd(drifted_key_rlc(d0), 1)
                      [] OTHER -> FSub(drifted_key_rlc(d0),
                                       FMul3(pos, 15 * parity, key_rlc_mult(d0)))
            d == [d0 EXCEPT !.key_s.key_rlc = krlc, !.key_c.key_rlc = krlc]
        IN  /\ pc = "assigned"
            /\ StorageLeafIdle
            /\ keccak = DriftedKeccakTable(d)
            /\ lookups = {}
            /\ drifted = d
            /\ drifted_gate = NoDriftedVerdict
            /\ step = NoStep
            /\ step_gate = NoStepVerdict

SpecDriftedKey == InitDriftedKey /\ [][VerifyDriftedLeaf]_vars

\* ------------------------------------------- drifted leaf: hash in parent
\* A drifted row below a branch that is a placeholder on at most one side;
\* nonce and balance are short or long, with field lengths of their own; the
\* Keccak table is empty, holds the hash of the drifted leaf of both sides,
\* holds it under a length one byte short, holds it with the hashes of the
\* two sides exchanged, or holds the hash of the drifted row alone.
InitDriftedHash ==
    \E ph \in {<<0, 0>>, <<1, 0>>, <<0, 1>>}, nonce_long \in 0..1,
       balance_long \in 0..1, nonce_len \in 5..6, balance_len \in 1..2,
       tbl \in 0..4 :
        LET d0 == DriftedRows(TRUE, HonestDriftedRow(248, 131, 32, 0, 0),
                     DriftedBranch(ph[1], ph[2], 0, 0, 0, 1, 1, 1, 5,
                                   HashRlc, HashRlc + 1),
                     0, 3, r,
                     AccountKeyRow(0, nonce_long, balance_long),
                     AccountKeyRow(0, balance_long, nonce_long),
                     NonceBalanceRow(1, 2, nonce_len, balance_len),
                     NonceBalanceRow(3, 4, balance_len + 4, nonce_len - 4),
                     StorageCodehashRow(11, 12), StorageCodehashRow(13, 12))
            krlc == drifted_key_rlc(d0)
            d == [d0 EXCEPT !.key_s.key_rlc = krlc, !.key_c.key_rlc = krlc]
            honest == DriftedKeccakTable(d)
        IN  /\ pc = "assigned"
            /\ StorageLeafIdle
            /\ keccak = CASE tbl = 0 -> {}
                          [] tbl = 1 -> honest
                          [] tbl = 2 -> {<<t[1], FSub(t[2], 1), t[3]>> : t \in honest}
                          [] tbl = 3 -> {<<t[1], t[2], (2 * HashRlc + 1) - t[3]>> :
                                            t \in honest}
                          [] OTHER -> {<<d.acc_s_rlc, t[2], t[3]>> : t \in honest}
            /\ lookups = {}
            /\ drifted = d
            /\ drifted_gate = NoDriftedVerdict
            /\ step = NoStep
            /\ step_gate = NoStepVerdict

SpecDriftedHash == InitDriftedHash /\ [][VerifyDriftedLeaf]_vars

\* ------------------------------------------------------ MUL / DIV / MOD
\* Width of an EVM word in bits (256 in the EVM).
WordBits == 2

WordMod == 2 ^ WordBits

Words == 0..(WordMod - 1)

\* bus_mapping::evm::OpcodeId: the opcode bytes of MUL, DIV and MOD
OpcodeId == [MUL |-> 2, DIV |-> 4, MOD |-> 6]

\* is_mul, is_div, is_mod of the opcode cell; F::from(8).invert() and
\* F::from(4).invert() are powers of the inverse of 2, which is (P + 1) / 2.
opcode_selectors(opcode) ==
    LET inv2 == (P + 1) \div 2
    IN  [is_mul |-> FMul3(FSub(OpcodeId.DIV, opcode), FSub(OpcodeId.MOD, opcode),
                          FPow(inv2, 3)),
         is_div |-> FMul3(FSub(opcode, OpcodeId.MUL), FSub(OpcodeId.MOD, opcode),
                          FPow(inv2, 2)),
         is_mod |-> FMul3(FSub(opcode, OpcodeId.MUL), FSub(opcode, OpcodeId.DIV),
                          FPow(inv2, 3))]

\* MulAddWordsGadget on [a, b, c, d]: a * b + c = d + overflow * 2^256 over the
\* integers; `holds` is the gadget's own constraint, `overflow` its overflow().
mul_add_words(w) ==
    [holds |-> (w.a * w.b + w.c) % WordMod = w.d,
     overflow |-> (w.a * w.b + w.c) \div WordMod]

\* IsZeroWordGadget on b: expr() is 1 if the word is zero and 0 otherwise
divisor_is_zero(w) == IF w.b = 0 THEN 1 ELSE 0

\* LtWordGadget on (c, b): expr() is 1 if c < b and 0 otherwise
lt_word(w) == IF w.c < w.b THEN 1 ELSE 0

\* The pushed word with the divisor_is_zero guards left out.
stack_push_unguarded(opcode, w) ==
    LET sel == opcode_selectors(opcode)
    IN  FAdd(FAdd(FMul(w.d, sel.is_mul), FMul(w.a, sel.is_div)),
             FMul(w.c, sel.is_mod))

\* cb.stack_push(d * is_mul + a * is_div * (1 - divisor_is_zero)
\*               + c * is_mod * (1 - divisor_is_zero))
stack_push(opcode, w) ==
    LET sel == opcode_selectors(opcode)
    IN  FAdd(FAdd(FMul(w.d, sel.is_mul),
                  FMul(w.a, FMul(sel.is_div, not(divisor_is_zero(w))))),
             FMul(w.c, FMul(sel.is_mod, not(divisor_is_zero(w)))))

\* The three stack operations against the values of the step's rw records:
\* pop select(is_mul, a, d), pop b, push.
stack_lookups(st) ==
    /\ select(opcode_selectors(st.opcode).is_mul, st.words.a, st.words.d) = st.pop1
    /\ st.words.b = st.pop2
    /\ stack_push(st.opcode, st.words) = st.push

\* "c == 0 for opcode MUL"; under 1 - is_mul: "residue < divisor when divisor
\* != 0 for opcode DIV/MOD" and "overflow == 0 for opcode DIV/MOD"; the
\* constraint of MulAddWordsGadget.
mul_div_mod_constraints(st) ==
    LET sel == opcode_selectors(st.opcode)
        w == st.words
    IN  /\ FMul(w.c, sel.is_mul) = 0
        /\ constraint(not(sel.is_mul),
                      FMul(not(lt_word(w)), not(divisor_is_zero(w))))
        /\ constraint(not(sel.is_mul), mul_add_words(w).overflow)
        /\ mul_add_words(w).holds

\* The word the EVM pushes for opcode on the popped words x and y, as the
\* execution trace records it.
evm_push(opcode, x, y) ==
    CASE opcode = OpcodeId.MUL -> (x * y) % WordMod
      [] opcode = OpcodeId.DIV -> IF y = 0 THEN 0 ELSE x \div y
      [] OTHER -> IF y = 0 THEN 0 ELSE x % y

\* let (a, b, c, d) = match step.opcode() { .. } over U256
assigned_words(opcode, pop1, pop2, push) ==
    CASE opcode = OpcodeId.MUL -> [a |-> pop1, b |-> pop2, c |-> 0, d |-> push]
      [] opcode = OpcodeId.DIV ->
            [a |-> push, b |-> pop2, c |-> (pop1 - push * pop2) % WordMod, d |-> pop1]
      [] OTHER ->
            [a |-> IF pop2 = 0 THEN 0 ELSE pop1 \div pop2, b |-> pop2,
             c |-> IF pop2 = 0 THEN pop1 ELSE push, d |-> pop1]

\* MulDivModGadget::assign_exec_step: the words a, b, c, d are assigned from
\* the three stack values of the step.
assign_exec_step ==
    /\ pc = "traced"
    /\ pc' = "step_assigned"
    /\ step' = [step EXCEPT
                  !.words = assigned_words(step.opcode, step.pop1, step.pop2, step.push)]
    /\ UNCHANGED <<is_s, branch, above, account, leaf_key, leaf_value, keccak,
                   key_gate, value_gate, lookups, drifted, drifted_gate, step_gate>>

\* The step is checked: the constraints and the stack operations of
\* MulDivModGadget::configure are evaluated on the assigned cells.
VerifyMulDivMod ==
    /\ pc = "step_assigned"
    /\ pc' = "step_checked"
    /\ step_gate' = [constraints |-> mul_div_mod_constraints(step),
                     stack |-> stack_lookups(step)]
    /\ UNCHANGED <<is_s, branch, above, account, leaf_key, leaf_value, keccak,
                   key_gate, value_gate, lookups, drifted, drifted_gate, step>>

NextMulDivMod == assign_exec_step \/ VerifyMulDivMod

\* The step satisfies every constraint and stack operation of the gadget.
StepAccepted ==
    /\ pc = "step_checked"
    /\ step_gate.constraints /\ step_gate.stack

\* Either a step of an execution trace (any two popped words, the pushed word
\* of the EVM) whose cells assign_exec_step is about to fill, or a step whose
\* cells a prover has filled: any pushed word, any words in the two cells that
\* the pops do not fix.
InitMulDivMod ==
    \E opcode \in {OpcodeId.MUL, OpcodeId.DIV, OpcodeId.MOD},
       pop1 \in Words, pop2 \in Words, push \in Words, x \in Words, y \in Words,
       traced \in BOOLEAN :
        /\ traced => (push = evm_push(opcode, pop1, pop2) /\ x = 0 /\ y = 0)
        /\ pc = IF traced THEN "traced" ELSE "step_assigned"
        /\ step = [opcode |-> opcode, pop1 |-> pop1, pop2 |-> pop2, push |-> push,
                   traced |-> traced,
                   words |-> IF traced THEN [a |-> 0, b |-> 0, c |-> 0, d |-> 0]
                             ELSE IF opcode = OpcodeId.MUL
                                  THEN [a |-> pop1, b |-> pop2, c |-> x, d |-> y]
                                  ELSE [a |-> x, b |-> pop2, c |-> y, d |-> pop1]]
        /\ step_gate = NoStepVerdict
        /\ StorageLeafIdle
        /\ keccak = {}
        /\ lookups = {}
        /\ drifted = NoDriftedRows
        /\ drifted_gate = NoDriftedVerdict

SpecMulDivMod == InitMulDivMod /\ [][NextMulDivMod]_vars

\* ------------------------- key row: the three total-nibbles constraints
\* Witnesses for the three total-nibbles constraints together: the leaf in the
\* first level or not, the parent branch a placeholder on the configured side
\* or not, the branch above it in the first storage level or not, with the
\* nibble counts, the key row, its denoter cells and key.rlc varying.  The
\* parent branch continues the branch above by one nibble.  acc_s of the row
\* is the honest one.
InitLeafNibbleTotal ==
    \E s2 \in {32, 130, 161}, b0 \in {32, 130, 161},
       f1 \in 0..1, f2 \in 0..1, odd \in BOOLEAN, first \in 0..1, ph \in 0..1,
       lvl \in 0..1, s \in BOOLEAN, nibbles \in (c64 - NibbleSpread)..c64 :
        LET raw == [s_rlp1 |-> IF f1 = 1 /\ f2 = 0 THEN 248 ELSE 226, s_rlp2 |-> s2,
                    bytes |-> Bytes32(b0, 32, 9, 5), c_rlp1 |-> 11, c_rlp2 |-> 13]
            a1  == IF odd THEN 1 ELSE 0
            a2  == 1 - a1
            ab  == Above(first, a1, a2, nibbles, 3, FMul(r, r))
            br  == Branch(a2, a1, IF s THEN ph ELSE 0, IF s THEN 0 ELSE ph,
                          nibbles + 1, 7, r)
            pre == KeyRow(raw, f1, f2, 0, 0, 0, 0, 0)
            acc(start, mult, sel1, sel2) ==
                IF f1 = 1 /\ f2 = 0 THEN key_rlc_acc_long(start, mult, sel1, sel2, pre)
                ELSE key_rlc_acc_short(start, mult, sel1, sel2, pre)
        IN  \E d \in {<<ab.key_rlc, ab.key_mult>>, <<0, 1>>},
               krlc \in {acc(ab.key_rlc, ab.key_mult, a1, a2), acc(0, 1, 0, 1),
                         acc(br.key_rlc, br.key_mult, br.sel1, br.sel2),
                         br.key_rlc} :
                /\ pc = "assigned"
                /\ is_s = s
                /\ branch = br
                /\ above = ab
                /\ account = Account(lvl)
                /\ leaf_key = KeyRow(raw, f1, f2,
                                     IF f1 = f2 THEN rlc_last_level_or_one_nibble(pre)
                                     ELSE leaf_key_row_rlc(pre),
                                     HonestAccMult(raw, f1 = 1 /\ f2 = 0),
                                     krlc, d[1], d[2])
                /\ leaf_value = NoValueRow
                /\ keccak = {}
                /\ key_gate = NoKeyVerdict
                /\ value_gate = NoValueVerdict
                /\ lookups = {}
                /\ drifted = NoDriftedRows
                /\ drifted_gate = NoDriftedVerdict
                /\ step = NoStep
                /\ step_gate = NoStepVerdict

SpecLeafNibbleTotal == InitLeafNibbleTotal /\ [][NextLeafKey]_vars

\* ------------------------------------ LeafValueConfig::assign (value row)
\* row.get_byte(i) of a witness row: the i-th byte of the row, i counted from
\* 0 (s_main.rlp1, s_main.rlp2, s_main.bytes[0], ..).
get_byte(row, i) ==
    IF i = 0 THEN row.s_rlp1 ELSE IF i = 1 THEN row.s_rlp2 ELSE Byte(row, i - 2)

\* a - b on u8 with overflow checks off: the difference modulo 2^8.
sub_u8(a, b) == (a - b) % 256

\* The subtractions assign performs on the bytes of the key row, as
\* <<minuend, subtrahend>>, in the order of the code and with wrapped
\* intermediate results.
assign_subtractions(row_prev) ==
    IF get_byte(row_prev, 0) = 248
    THEN LET key_len == sub_u8(get_byte(row_prev, 2), 128)
         IN  << <<get_byte(row_prev, 2), 128>>,
                <<get_byte(row_prev, 1), key_len>>,
                <<sub_u8(get_byte(row_prev, 1), key_len), 1>> >>
    ELSE IF get_byte(row_prev, 1) < 128
    THEN LET leaf_len == sub_u8(get_byte(row_prev, 0), 192)
         IN  << <<get_byte(row_prev, 0), 192>>, <<leaf_len, 1>> >>
    ELSE LET leaf_len == sub_u8(get_byte(row_prev, 0), 192)
             key_len  == sub_u8(get_byte(row_prev, 1), 128)
         IN  << <<get_byte(row_prev, 0), 192>>,
                <<get_byte(row_prev, 1), 128>>,
                <<leaf_len, key_len>>,
                <<sub_u8(leaf_len, key_len), 1>> >>

\* Some subtraction of assign leaves the range of u8.
assign_overflows(row_prev) ==
    \E i \in 1..Len(assign_subtractions(row_prev)) :
        assign_subtractions(row_prev)[i][1] < assign_subtractions(row_prev)[i][2]

\* "Info whether leaf value is 1 byte or more": the last difference is > 1.
assign_is_long(row_prev) ==
    LET subs == assign_subtractions(row_prev)
        last == subs[Len(subs)]
    IN  sub_u8(last[1], last[2]) > 1

\* mpt_config.assign_long_short(region, typ, offset): the pair of cells
\* (is_long, is_short) for typ "long" / "short".
assign_long_short(long) == IF long THEN <<1, 0>> ELSE <<0, 1>>

\* mpt_config.compute_acc_and_mult(row, acc, mult, start, len): for i in
\* 0..len, acc += row[start + i] * mult; mult *= r.
compute_acc_and_mult(cells, acc, mult, start, len) ==
    [acc  |-> FAdd(acc, FSum([i \in 1..len |->
                                 FMul3(cells[start + i], mult, RPow(i - 1))])),
     mult |-> FMul(mult, RPow(len))]
\* The value RLC started at the first byte of the row for every value.
value_rlc_start_zero(long) == 0

\* The first byte of the value RLC: let mut start = 0; if is_long { start = 2 }
value_rlc_start(long) == IF long THEN 2 ELSE 0

\* The row at offset - 4 (S) / offset - 5 (C) is the storage codehash row of
\* the account leaf and holds the hash of the empty trie.
is_placeholder_without_branch(ac) ==
    ac.is_account_leaf_in_added_branch = 1 /\ ac.storage_root = empty_trie_hash

\* LeafValueConfig::assign.  pv.acc_s / pv.acc_mult_s come from the key row
\* (acc_s of leaf_key), pv.rlc2 is key.rlc of the key row and pv.rlc1 the value
\* RLC stored when the S value row was assigned.  A subtraction that leaves
\* the range of u8 ends the call when overflow checks are on and wraps when
\* they are off.  (proof_type and acc_s.mult / acc_c.mult of the value row are
\* not read by the value gate and are not kept.)
leaf_value_assign ==
    /\ pc = "witnessed"
    /\ \/ /\ assign_overflows(leaf_key)
          /\ pc' = "panicked"
          /\ UNCHANGED leaf_value
       \/ LET long  == assign_is_long(leaf_key)
              cells == Cells(leaf_value)
              acc_s == compute_acc_and_mult(cells, leaf_key.acc_s_rlc,
                                            leaf_key.acc_s_mult, 0, HASH_WIDTH + 2)
              acc_c == compute_acc_and_mult(cells, 0, 1, value_rlc_start(long),
                                            HASH_WIDTH + 2)
              ph    == IF is_placeholder_without_branch(account) THEN 1
                       ELSE leaf_value.sel
          IN  /\ pc' = "assigned"
              /\ leaf_value' =
                    [leaf_value EXCEPT
                        !.is_long = assign_long_short(long)[1],
                        !.is_short = assign_long_short(long)[2],
                        !.acc_s_rlc = acc_s.acc,
                        !.acc_c_rlc = acc_c.acc,
                        !.acc_c_rlc_s = IF is_s THEN acc_c.acc ELSE @,
                        !.sel = ph,
                        !.key_mult = IF is_s THEN @ ELSE leaf_key.key_rlc,
                        !.value_prev = IF is_s THEN @ ELSE leaf_value.acc_c_rlc_s,
                        !.value = acc_c.acc]
    /\ UNCHANGED <<is_s, branch, above, account, leaf_key, keccak, key_gate,
                   value_gate, lookups, drifted, drifted_gate, step, step_gate>>

NextValueAssign == leaf_value_assign \/ VerifyLeafValue

\* Key rows (s_rlp1, s_rlp2, s_main.bytes[0], flag1, flag2) of leaves with a
\* value part of 1, 4 and 34 bytes, and key rows that are no leaf: all zero,
\* a first byte below 192, and lengths that do not add up.
AssignKeyRows ==
    {<<194, 49, 0, 0, 0>>, <<194, 32, 0, 1, 1>>, <<197, 49, 0, 0, 0>>,
     <<196, 130, 32, 0, 1>>, <<199, 130, 32, 0, 1>>, <<248, 67, 160, 1, 0>>,
     <<0, 0, 0, 0, 0>>, <<100, 200, 0, 0, 1>>, <<192, 0, 0, 0, 0>>,
     <<248, 3, 160, 1, 0>>, <<196, 135, 32, 0, 1>>}

\* Value rows (s_rlp1, s_rlp2, s_main.bytes, c_rlp1, c_rlp2): a short value,
\* long values of 2 and 32 bytes, the all-zero row and a row with a stray
\* c_rlp1.
AssignValueRows ==
    {<<5, 0, ZeroBytes, 0, 0>>,
     <<131, 130, Bytes32(7, 9, 0, 0), 0, 0>>,
     <<161, 160, Bytes32(7, 9, 11, 5), 0, 0>>,
     <<0, 0, ZeroBytes, 0, 0>>,
     <<131, 130, Bytes32(7, 9, 0, 0), 3, 0>>}

\* Witness rows before LeafValueConfig::assign runs on the value row.
InitValueAssign ==
    \E k \in AssignKeyRows, v \in AssignValueRows, s \in BOOLEAN, first \in 0..1 :
        /\ pc = "witnessed"
        /\ is_s = s
        /\ branch = Branch(1, 0, 0, 0, 63, 7, r)
        /\ above = Above(0, 0, 1, 0, 3, 1)
        /\ account = [Account(first) EXCEPT !.storage_root = empty_trie_hash]
        /\ leaf_key = [KeyRowAbove(k[1], k[2], k[3], k[4], k[5], 1)
                          EXCEPT !.key_rlc = 23]
        /\ leaf_value = [s_rlp1 |-> v[1], s_rlp2 |-> v[2], bytes |-> v[3],
                         c_rlp1 |-> v[4], c_rlp2 |-> v[5],
                         is_long |-> 0, is_short |-> 0, acc_s_rlc |-> 0,
                         acc_c_rlc |-> 0, acc_c_rlc_s |-> 11, sel |-> 0,
                         key_mult |-> 0, value_prev |-> 0, value |-> 0,
                         not_first_level |-> 1]
        /\ keccak = {}
        /\ key_gate = NoKeyVerdict
        /\ value_gate = NoValueVerdict
        /\ lookups = {}
        /\ drifted = NoDriftedRows
        /\ drifted_gate = NoDriftedVerdict
        /\ step = NoStep
        /\ step_gate = NoStepVerdict

SpecValueAssign == InitValueAssign /\ [][NextValueAssign]_vars

\* ----------------------------------------------------- reference values
\* The case the key RLC gate of lines 183-383 is enabled for.
NotFirstLevelNotPlaceholder ==
    /\ account.is_account_leaf_in_added_branch = 0
    /\ is_branch_placeholder(is_s, branch) = 0

RowIsLong(row) == row.flag1 = 1 /\ row.flag2 = 0
RowIsShort(row) == row.flag1 = 0 /\ row.flag2 = 1
RowIsLastLevel(row) == row.flag1 = 1 /\ row.flag2 = 1
RowIsOneNibble(row) == row.flag1 = 0 /\ row.flag2 = 0

\* Sum of cell_i * r^i over a sequence of cells, i counted from 0.
RowRlc(cells) == FSum([i \in 1..Len(cells) |-> FMul(cells[i], RPow(i - 1))])

\* Nibbles a leaf contributes, in plain integer arithmetic.
LeafNibblesOf(row, odd) ==
    LET adjust == IF odd THEN 1 ELSE 2
    IN  IF RowIsLong(row) THEN 2 * (Byte(row, 0) - 128) - adjust
        ELSE IF RowIsShort(row) THEN 2 * (row.s_rlp2 - 128) - adjust
        ELSE IF RowIsLastLevel(row) THEN 0
        ELSE 1

FirstKeyByte(row) == IF RowIsLong(row) THEN Byte(row, 1) ELSE Byte(row, 0)

\* The key bytes that follow the first key byte.
RemainingKeyBytes(row) ==
    IF RowIsLong(row)
    THEN SubSeq(row.bytes, 3, HASH_WIDTH) \o <<row.c_rlp1, row.c_rlp2>>
    ELSE SubSeq(row.bytes, 2, HASH_WIDTH) \o <<row.c_rlp1>>

\* key_rlc_acc_start + (first_key_byte - 48) * key_mult_start * sel1
\*   + sum of remaining key bytes * key_mult * r^i
ExpectedKeyRlc(start, mult_start, odd, row) ==
    LET mult == IF odd THEN FMul(mult_start, r) ELSE mult_start
        head == IF odd THEN FMul(FSub(FirstKeyByte(row), 48), mult_start) ELSE 0
    IN  FAdd(FAdd(start, head), FMul(mult, RowRlc(RemainingKeyBytes(row))))

\* ------------------------------------------------------------ properties
\* C1: a storage leaf key row that is not in the first level and whose parent
\* branch is not a placeholder on the configured side satisfies the Leaf Key
\* Gate only if nibbles_count of the parent branch plus leaf_nibbles is 64;
\* every such row whose sum differs from 64 is rejected.
C1_NibbleTotal ==
    (KeyAccepted /\ NotFirstLevelNotPlaceholder)
        => FAdd(branch.nibbles_count,
                leaf_nibbles(leaf_key, branch.sel1, branch.sel2)) = c64

C1_Witness ==
    /\ KeyAccepted /\ NotFirstLevelNotPlaceholder
    /\ RowIsShort(leaf_key) /\ branch.nibbles_count = c64 - 3

\* C2: a leaf key row accepted by the gate "Storage leaf RLC" (hence by the
\* Leaf Key Gate) has flag1 and flag2 in {0, 1}, and exactly one of is_long,
\* is_short, last_level, one_nibble equals 1 while the other three equal 0.
C2_VariantExclusivity ==
    (pc = "key_checked" /\ key_gate.rlc)
        => /\ leaf_key.flag1 \in {0, 1}
           /\ leaf_key.flag2 \in {0, 1}
           /\ LET v == <<is_long(leaf_key), is_short(leaf_key),
                         last_level(leaf_key), one_nibble(leaf_key)>>
              IN  \E i \in 1..4 : v[i] = 1 /\ \A j \in (1..4) \ {i} : v[j] = 0

C2_Witness == KeyAccepted /\ is_short(leaf_key) = 1 /\ leaf_key.acc_s_rlc # 0

\* C3: a short or long leaf key row (not first level, parent branch not a
\* placeholder) is accepted only if key.rlc = key_rlc_acc_start
\* + (first_key_byte - 48) * key_mult_start * sel1 + the remaining key bytes
\* times key_mult * r^i, key_mult being key_mult_start * r when sel1 (odd) and
\* key_mult_start when sel2 (even); the first key byte is s_main.bytes[0] for
\* short and s_main.bytes[1] for long, and sel2 = 1 forces it to be 32.
C3_KeyRlcShortLong ==
    (KeyAccepted /\ NotFirstLevelNotPlaceholder
        /\ (RowIsShort(leaf_key) \/ RowIsLong(leaf_key)))
        => /\ leaf_key.key_rlc = ExpectedKeyRlc(branch.key_rlc, branch.key_mult,
                                                branch.sel1 = 1, leaf_key)
           /\ branch.sel2 = 1 => FirstKeyByte(leaf_key) = 32

C3_Witness ==
    /\ KeyAccepted /\ NotFirstLevelNotPlaceholder
    /\ RowIsLong(leaf_key) /\ branch.sel1 = 1 /\ leaf_key.c_rlp2 # 0

\* C4: leaf_nibbles is 2 * (len_byte - 128) - 2 under the even selector sel2
\* and 2 * (len_byte - 128) - 1 under the odd selector sel1 (len_byte is s_rlp2
\* for short, s_main.bytes[0] for long), 0 for last_level and 1 for
\* one_nibble; an accepted last_level leaf has ancestor nibble count 64 and an
\* accepted one_nibble leaf has 63.
C4_LeafNibbles ==
    (pc = "key_checked" /\ NotFirstLevelNotPlaceholder)
        => /\ leaf_nibbles(leaf_key, branch.sel1, branch.sel2)
                = LeafNibblesOf(leaf_key, branch.sel1 = 1) % P
           /\ (KeyAccepted /\ RowIsLastLevel(leaf_key)) => branch.nibbles_count = 64
           /\ (KeyAccepted /\ RowIsOneNibble(leaf_key)) => branch.nibbles_count = 63

C4_Witness ==
    /\ KeyAccepted /\ NotFirstLevelNotPlaceholder
    /\ RowIsLong(leaf_key) /\ branch.sel2 = 1 /\ leaf_key.s_rlp2 # Byte(leaf_key, 0)

\* C5: an accepted one_nibble leaf key row (not first level, parent branch not
\* a placeholder) whose parent branch has the odd selector set has
\* key.rlc = key_rlc_acc_start + (s_rlp2 - 48) * key_mult_start, i.e. the
\* validated key.rlc includes the nibble the leaf contributes.
C5_OneNibbleKeyRlc ==
    (KeyAccepted /\ NotFirstLevelNotPlaceholder
        /\ RowIsOneNibble(leaf_key) /\ branch.sel1 = 1)
        => leaf_key.key_rlc
             = FAdd(branch.key_rlc, FMul(FSub(leaf_key.s_rlp2, 48), branch.key_mult))

\* C6: an accepted leaf key row has acc_s.rlc equal to the sum of cell_i * r^i
\* over the 36 cells s_rlp1, s_rlp2, s_main.bytes[0..31], c_rlp1, c_rlp2 when
\* it is short or long, and equal to s_rlp1 + s_rlp2 * r when it is last_level
\* or one_nibble; is_long forces s_rlp1 = 248 and last_level forces
\* s_rlp2 = 32.
C6_LeafKeyRowRlc ==
    (pc = "key_checked" /\ key_gate.rlc)
        => /\ (RowIsShort(leaf_key) \/ RowIsLong(leaf_key))
                => leaf_key.acc_s_rlc = RowRlc(Cells(leaf_key))
           /\ (RowIsLastLevel(leaf_key) \/ RowIsOneNibble(leaf_key))
                => leaf_key.acc_s_rlc
                     = FAdd(leaf_key.s_rlp1, FMul(leaf_key.s_rlp2, r))
           /\ RowIsLong(leaf_key) => leaf_key.s_rlp1 = 248
           /\ RowIsLastLevel(leaf_key) => leaf_key.s_rlp2 = 32

C6_Witness ==
    /\ KeyAccepted /\ RowIsLong(leaf_key)
    /\ leaf_key.c_rlp2 # 0 /\ Byte(leaf_key, 2) # 0

\* The length a value row declares, and the length the key row leaves for the
\* value: the total declared length minus the key's length minus the RLP
\* overhead (plain integer arithmetic).
DeclaredValueLen(row) == IF row.is_short = 1 THEN 1 ELSE row.s_rlp2 - 128 + 2

DeclaredRemainder(key) ==
    IF RowIsShort(key) THEN (key.s_rlp1 - 192) - (key.s_rlp2 - 128) - 1
    ELSE IF RowIsLong(key) THEN key.s_rlp2 - (Byte(key, 0) - 128) - 1
    ELSE (key.s_rlp1 - 192) - 1

\* The serialized length of the leaf, from the key row.
LeafLength(key) == IF RowIsLong(key) THEN key.s_rlp2 + 2 ELSE key.s_rlp1 - 192 + 1

\* 56e81f171bcc55a6ff8345e692c0f86e5b48e01b996cadc001622fb5e363b421, digit by
\* digit, and the 32 bytes it denotes.
EmptyTrieHashHex ==
    <<5, 6, 14, 8, 1, 15, 1, 7, 1, 11, 12, 12, 5, 5, 10, 6,
      15, 15, 8, 3, 4, 5, 14, 6, 9, 2, 12, 0, 15, 8, 6, 14,
      5, 11, 4, 8, 14, 0, 1, 11, 9, 9, 6, 12, 10, 13, 12, 0,
      0, 1, 6, 2, 2, 15, 11, 5, 14, 3, 6, 3, 11, 4, 2, 1>>

EmptyTrieHash ==
    [i \in 1..HASH_WIDTH |-> 16 * EmptyTrieHashHex[2 * i - 1] + EmptyTrieHashHex[2 * i]]

\* C7: a leaf value row is accepted only if acc_c.rlc (value_rlc) equals
\* s_rlp1 when the value is short and the RLC of s_main.bytes when it is long,
\* and acc_s.rlc (leaf_rlc) equals the key row's acc_s.rlc plus
\* mult_prev * s_rlp1 (short) or mult_prev * (s_rlp1 + s_rlp2 * r
\* + value_rlc * r^2) (long), mult_prev being acc_s.mult of the key row.
C7_ValueRowRlc ==
    ValueAccepted
        => LET mult_prev == leaf_key.acc_s_mult
               value_rlc == leaf_value.acc_c_rlc
               leaf_rlc  == leaf_value.acc_s_rlc
           IN  /\ leaf_value.is_short = 1 \/ leaf_value.is_long = 1
               /\ leaf_value.is_short = 1
                    => /\ value_rlc = leaf_value.s_rlp1
                       /\ leaf_rlc = FAdd(leaf_key.acc_s_rlc,
                                          FMul(mult_prev, leaf_value.s_rlp1))
               /\ leaf_value.is_long = 1
                    => /\ value_rlc = RowRlc(leaf_value.bytes)
                       /\ leaf_rlc =
                            FAdd(leaf_key.acc_s_rlc,
                                 FMul(mult_prev,
                                      FAdd(FAdd(leaf_value.s_rlp1,
                                                FMul(leaf_value.s_rlp2, r)),
                                           FMul3(value_rlc, r, r))))

C7_Witness ==
    /\ ValueAccepted /\ leaf_value.is_long = 1
    /\ leaf_value.s_rlp2 # 0 /\ Byte(leaf_value, 31) # 0

\* C8: for a leaf that is not a placeholder and every combination of key
\* variant and value variant, the value row is accepted only if the total
\* length declared in the key row minus the key's length minus the RLP
\* overhead equals the value's declared length (1 for a short value,
\* s_rlp2 - 128 + 2 for a long value); a pair of rows whose declared lengths
\* disagree is rejected.
C8_RlpLengths ==
    (ValueAccepted /\ is_leaf_placeholder(leaf_value, branch, account) = 0)
        => DeclaredRemainder(leaf_key) = DeclaredValueLen(leaf_value)

C8_Witness ==
    /\ ValueAccepted /\ is_leaf_placeholder(leaf_value, branch, account) = 0
    /\ RowIsShort(leaf_key) /\ leaf_value.is_long = 1

\* C9: for a leaf that is not a placeholder under a parent branch that is not
\* a placeholder (not first level, no account leaf directly above), a leaf
\* shorter than 32 bytes is accepted only if leaf_rlc equals the modified child
\* the parent stores and no Keccak lookup is issued, and a leaf of 32 bytes or
\* more only through the Keccak lookup (leaf_rlc, leaf_len, modified child of
\* the parent): the length of the leaf decides which path applies.
C9_UnhashedThreshold ==
    (/\ ValueAccepted
     /\ is_leaf_placeholder(leaf_value, branch, account) = 0
     /\ is_branch_placeholder(is_s, branch) = 0
     /\ leaf_value.not_first_level = 1
     /\ account.is_account_leaf_in_added_branch = 0)
        => IF LeafLength(leaf_key) < 32
           THEN /\ leaf_value.acc_s_rlc = branch.mod_node_rlc
                /\ lookups = {}
                /\ drifted = NoDriftedRows
                /\ drifted_gate = NoDriftedVerdict
                /\ step = NoStep
                /\ step_gate = NoStepVerdict
           ELSE /\ <<1, leaf_value.acc_s_rlc, LeafLength(leaf_key),
                     branch.mod_node_rlc>> \in lookups
                /\ <<leaf_value.acc_s_rlc, LeafLength(leaf_key),
                     branch.mod_node_rlc>> \in keccak

\* C10: when the account leaf is directly above the storage leaf and the leaf
\* is a placeholder without branch, the value row is accepted only if the 32
\* storage root bytes of the account's storage/codehash row equal, byte for
\* byte, 56e81f171bcc55a6ff8345e692c0f86e5b48e01b996cadc001622fb5e363b421.
C10_EmptyTrieAfterDelete ==
    (/\ ValueAccepted
     /\ account.is_account_leaf_in_added_branch = 1
     /\ leaf_value.sel = 1)
        => \A i \in 1..HASH_WIDTH : account.storage_root[i] = EmptyTrieHash[i]

C10_Witness ==
    /\ ValueAccepted
    /\ account.is_account_leaf_in_added_branch = 1
    /\ leaf_value.sel = 1
    /\ account.storage_root[1] = 86

\* C11: when the leaf is not in the first level, the account leaf is directly
\* above it and the leaf is not a placeholder, the value row is accepted only
\* if the Keccak table contains (leaf_rlc, leaf_len, RLC of the storage root
\* bytes of the account row); that lookup is the only one issued, so no value
\* of a parent branch is consulted.
C11_OnlyLeafIsStorageRoot ==
    (/\ ValueAccepted
     /\ leaf_value.not_first_level = 1
     /\ account.is_account_leaf_in_added_branch = 1
     /\ is_leaf_placeholder(leaf_value, branch, account) = 0)
        => /\ <<leaf_value.acc_s_rlc, LeafLength(leaf_key) % P,
                RowRlc(account.storage_root)>> \in keccak
           /\ lookups = {<<1, leaf_value.acc_s_rlc, LeafLength(leaf_key) % P,
                           RowRlc(account.storage_root)>>}

C11_Witness ==
    /\ ValueAccepted
    /\ leaf_value.not_first_level = 1
    /\ account.is_account_leaf_in_added_branch = 1
    /\ is_leaf_placeholder(leaf_value, branch, account) = 0
    /\ RowRlc(account.storage_root) # branch.mod_node_rlc
    /\ not_hashed(leaf_key) = 1

\* C12: when the parent branch of a leaf that is not a placeholder is a
\* placeholder (not first level), the Keccak lookup of the leaf compares with
\* the modified child of the branch above the placeholder branch if no account
\* leaf is directly above the placeholder branch, and with the RLC of the
\* storage root bytes of the account row above the placeholder branch
\* otherwise; the child of the placeholder branch is never compared with.
C12_PostPlaceholderLinkage ==
    (/\ ValueAccepted
     /\ is_leaf_placeholder(leaf_value, branch, account) = 0
     /\ is_branch_placeholder(is_s, branch) = 1
     /\ leaf_value.not_first_level = 1
     /\ account.is_account_leaf_in_added_branch = 0)
        => LET expected == IF above.is_account_leaf_in_added_branch = 0
                           THEN above.mod_node_rlc
                           ELSE RowRlc(account.storage_root_prev)
           IN  /\ <<leaf_value.acc_s_rlc, LeafLength(leaf_key) % P, expected>>
                    \in keccak
               /\ lookups = {<<1, leaf_value.acc_s_rlc, LeafLength(leaf_key) % P,
                               expected>>}

C12_Witness ==
    /\ ValueAccepted
    /\ is_leaf_placeholder(leaf_value, branch, account) = 0
    /\ is_branch_placeholder(is_s, branch) = 1
    /\ leaf_value.not_first_level = 1
    /\ account.is_account_leaf_in_added_branch = 0
    /\ above.is_account_leaf_in_added_branch = 0
    /\ above.mod_node_rlc # branch.mod_node_rlc
    /\ leaf_value.is_long = 1

\* C13: a leaf key row with is_leaf_in_first_level = 1 is accepted only if it
\* is short or long, key.rlc is the RLC (start 0, multiplier 1) of the key
\* bytes that follow the first key byte, the first key byte is 32, the leaf
\* alone contributes 64 nibbles and the key length byte (s_rlp2 for short,
\* s_main.bytes[0] for long) is 161.
C13_FirstLevelKey ==
    (KeyAccepted /\ account.is_account_leaf_in_added_branch = 1)
        => /\ RowIsShort(leaf_key) \/ RowIsLong(leaf_key)
           /\ leaf_key.key_rlc = RowRlc(RemainingKeyBytes(leaf_key))
           /\ leaf_key.key_rlc = ExpectedKeyRlc(0, 1, FALSE, leaf_key)
           /\ FirstKeyByte(leaf_key) = 32
           /\ LeafNibblesOf(leaf_key, FALSE) = 64
           /\ (IF RowIsLong(leaf_key) THEN Byte(leaf_key, 0) ELSE leaf_key.s_rlp2) = 161

C13_Witness ==
    /\ KeyAccepted /\ account.is_account_leaf_in_added_branch = 1
    /\ RowIsShort(leaf_key) /\ leaf_key.c_rlp1 # 0 /\ Byte(leaf_key, 1) # 0

\* The case the gate "Storage leaf key RLC (after placeholder)" is enabled
\* for, and what the level above the placeholder branch hands down: the
\* accumulator, the multiplier, the parity and the nibble count (0, 1, even
\* and 0 in the first storage level).
AfterPlaceholder ==
    /\ account.is_account_leaf_in_added_branch = 0
    /\ is_branch_placeholder(is_s, branch) = 1

UpperStart == IF above.is_first_storage_level = 1 THEN 0 ELSE above.key_rlc

UpperMult == IF above.is_first_storage_level = 1 THEN 1 ELSE above.key_mult

UpperOdd == above.is_first_storage_level = 0 /\ above.sel1 = 1

UpperNibbles == IF above.is_first_storage_level = 1 THEN 0 ELSE above.nibbles_count

\* C14: a short or long leaf key row under a placeholder branch (not first
\* level) is accepted only if denoter.sel1 / denoter.sel2 of the row equal
\* key.rlc / key.mult of the branch above the placeholder branch (0 / 1 when
\* the placeholder branch is in the first storage level) and key.rlc of the
\* row is the key RLC computed from that start; the accumulator of the
\* placeholder branch is not used.
C14_PostPlaceholderKeyRlc ==
    (KeyAccepted /\ AfterPlaceholder
        /\ (RowIsShort(leaf_key) \/ RowIsLong(leaf_key)))
        => /\ leaf_key.sel1 = UpperStart
           /\ leaf_key.sel2 = UpperMult
           /\ leaf_key.key_rlc
                = ExpectedKeyRlc(leaf_key.sel1, leaf_key.sel2, UpperOdd, leaf_key)

C14_Witness ==
    /\ KeyAccepted /\ AfterPlaceholder /\ RowIsLong(leaf_key)
    /\ above.is_first_storage_level = 0 /\ above.sel1 = 1
    /\ leaf_key.key_rlc
         # ExpectedKeyRlc(branch.key_rlc, branch.key_mult, branch.sel1 = 1, leaf_key)

\* C15: a leaf key row under a placeholder branch (not first level) is accepted
\* only if nibbles_count of the branch above the placeholder branch (0 when
\* the placeholder branch is in the first storage level) plus the nibbles of
\* the leaf, counted with the odd / even selectors of that upper branch, is 64.
C15_PostPlaceholderNibbleTotal ==
    (KeyAccepted /\ AfterPlaceholder)
        => UpperNibbles + LeafNibblesOf(leaf_key, UpperOdd) = 64

C15_Witness ==
    /\ KeyAccepted /\ AfterPlaceholder /\ RowIsShort(leaf_key)
    /\ above.is_first_storage_level = 0 /\ above.sel1 = 1
    /\ above.nibbles_count = c64 - 3

\* ------------------------------------------------- drifted leaf properties
\* The cells of the drifted row are bytes.
DriftedCellsAreBytes ==
    \A i \in 1..Len(Cells(drifted)) : Cells(drifted)[i] \in 0..255

\* C16: the constraints of the drifted leaf gate act on a drifted row if and
\* only if the branch above is a placeholder on the S or the C side: with both
\* placeholder flags 0 every drifted row whose cells are bytes is accepted.
C16_ActivationOnlyUnderPlaceholder ==
    (/\ pc = "drifted_checked"
     /\ drifted.is_branch_s_placeholder = 0
     /\ drifted.is_branch_c_placeholder = 0
     /\ DriftedCellsAreBytes)
        => DriftedAccepted

\* key_rlc_cur: the key RLC accumulated before the placeholder branch.
ExpectedKeyRlcCur ==
    IF drifted.is_ext_node = 1 THEN drifted.ext_key_rlc
    ELSE IF drifted.not_first_level = 1 THEN drifted.above_key_rlc ELSE 0

\* key_rlc_mult: the multiplier reached before the placeholder branch, times
\* the multiplier of the nibbles of the extension node.
ExpectedKeyRlcMult ==
    LET start == IF drifted.not_first_level = 1 THEN drifted.above_key_mult ELSE 1
        ext == IF drifted.is_ext_node = 0 THEN 1
               ELSE IF drifted.is_ext_one_nibble = 0 THEN drifted.mult_diff
               ELSE IF drifted.is_c1 = 1 THEN 1 ELSE r
    IN  (start * ext) % P

\* The key bytes after s_main.bytes[1]: s_main.bytes[2..31], c_main.rlp1,
\* c_main.rlp2.
FollowingKeyBytes ==
    SubSeq(drifted.bytes, 3, HASH_WIDTH) \o <<drifted.c_rlp1, drifted.c_rlp2>>

RECURSIVE WeightedSum(_, _)
\* sum of bytes[i] * r^i for i in 1..n
WeightedSum(bytes, n) ==
    IF n = 0 THEN 0
    ELSE (WeightedSum(bytes, n - 1) + bytes[n] * FPow(r, n)) % P

\* The key RLC of the drifted leaf, from the cells.
ExpectedDriftedKeyRlc ==
    LET mult == ExpectedKeyRlcMult
        weight == 16 * drifted.is_c16 + drifted.is_c1
        first == ((drifted.bytes[2] - 48) * drifted.is_c16) % P
        rest == WeightedSum(FollowingKeyBytes, Len(FollowingKeyBytes))
    IN  (ExpectedKeyRlcCur + ((drifted.drifted_pos * weight) % P) * mult
         + mult * ((first + rest) % P)) % P

\* C17: an accepted drifted row below an S (C) placeholder branch has the key
\* RLC of the account leaf key S (C) row equal to key_rlc_cur + drifted_pos *
\* (16 * is_c16 + is_c1) * key_rlc_mult + key_rlc_mult * ((s_main.bytes[1] - 48)
\* * is_c16 + sum of the following key bytes times r^i).
C17_DriftedKeyIdentity ==
    DriftedAccepted =>
        /\ drifted.is_branch_s_placeholder = 1
              => drifted.key_s.key_rlc = ExpectedDriftedKeyRlc
        /\ drifted.is_branch_c_placeholder = 1
              => drifted.key_c.key_rlc = ExpectedDriftedKeyRlc

C17_Witness ==
    /\ DriftedAccepted
    /\ drifted.is_branch_s_placeholder = 1
    /\ drifted.is_ext_node = 1 /\ drifted.is_ext_one_nibble = 0
    /\ drifted.is_c16 = 1 /\ drifted.drifted_pos = 5
    /\ drifted.key_s.key_rlc = ExpectedDriftedKeyRlc

\* The drifted leaf gate accepts the rows of the current witness with
\* drifted_pos replaced by pos.
AcceptedWithDriftedPos(pos) ==
    drifted_all_hold(drifted_leaf_gate([drifted EXCEPT !.drifted_pos = pos], keccak))

ExpectedDriftedLeafRlc(s) ==
    LET key == IF s THEN drifted.key_s ELSE drifted.key_c
        nb == IF s THEN drifted.nonce_s ELSE drifted.nonce_c
        sc == IF s THEN drifted.storage_s ELSE drifted.storage_c
        nonce == IF key.is_nonce_long = 1
                 THEN (nb.s_byte0 + nb.nonce_stored * r) % P
                 ELSE nb.nonce_stored
        balance == IF key.is_balance_long = 1
                   THEN (nb.c_byte0 + nb.balance_stored * r) % P
                   ELSE nb.balance_stored
        at_balance == nb.mult_diff_nonce
        at_storage == (at_balance * nb.mult_diff_balance) % P
        at_root == (at_storage * r) % P
        at_codehash_prefix == (at_root * FPow(r, HASH_WIDTH)) % P
        at_codehash == (at_codehash_prefix * r) % P
        fields == (nb.s_rlp1 + nb.s_rlp2 * r + nb.c_rlp1 * FPow(r, 2)
                   + nb.c_rlp2 * FPow(r, 3) + nonce * FPow(r, 4)
                   + balance * at_balance + sc.s_rlp2 * at_storage
                   + ((sc.storage_root_stored * at_root) % P)
                   + ((sc.c_rlp2 * at_codehash_prefix) % P)
                   + ((sc.codehash_stored * at_codehash) % P)) % P
    IN  (drifted.acc_s_rlc + fields * drifted.acc_s_mult) % P

\* C19: an accepted drifted row has, for each side whose branch is a
\* placeholder, the row (RLC of the drifted leaf of that side, s_rlp2 + 2,
\* mod_node_rlc of that side in the branch children) in the Keccak table.
C19_DriftedLeafHashInParent ==
    DriftedAccepted =>
        /\ drifted.is_branch_s_placeholder = 1
              => <<ExpectedDriftedLeafRlc(TRUE), drifted.s_rlp2 + 2,
                   drifted.s_mod_node_rlc>> \in keccak
        /\ drifted.is_branch_c_placeholder = 1
              => <<ExpectedDriftedLeafRlc(FALSE), drifted.s_rlp2 + 2,
                   drifted.c_mod_node_rlc>> \in keccak

C19_Witness ==
    /\ DriftedAccepted
    /\ drifted.is_branch_c_placeholder = 1
    /\ drifted.key_c.is_nonce_long = 1
    /\ <<ExpectedDriftedLeafRlc(FALSE), drifted.s_rlp2 + 2, drifted.c_mod_node_rlc>>
          \in keccak
    /\ <<1, ExpectedDriftedLeafRlc(FALSE), drifted.s_rlp2 + 2,
         drifted.c_mod_node_rlc>> \in lookups

\* ---------------------------------------------------- MUL / DIV / MOD
\* C20: an accepted step pushes (a * b) mod 2^WordBits for MUL, floor(a / b)
\* for DIV and a mod b for MOD when b # 0, and 0 for DIV and MOD when b = 0,
\* where a and b are the popped words; and every step of an execution trace,
\* with the cells assign_exec_step fills in, is accepted.
C20_MulDivModResult ==
    /\ StepAccepted =>
          step.push =
              (IF step.opcode = OpcodeId.MUL THEN (step.pop1 * step.pop2) % WordMod
               ELSE IF step.pop2 = 0 THEN 0
               ELSE IF step.opcode = OpcodeId.DIV THEN step.pop1 \div step.pop2
               ELSE step.pop1 % step.pop2)
    /\ (pc = "step_checked" /\ step.traced) => StepAccepted

C20_Witness ==
    /\ StepAccepted
    /\ step.traced
    /\ step.opcode = OpcodeId.MUL
    /\ step.pop1 * step.pop2 >= WordMod
    /\ step.push = (step.pop1 * step.pop2) % WordMod

\* ------------------------------------------- leaf key row: zero padding
\* The declared key length of a short (s_rlp2 - 128) or long
\* (s_main.bytes[0] - 128) key row.
DeclaredKeyLen ==
    IF RowIsLong(leaf_key) THEN leaf_key.bytes[1] - 128 ELSE leaf_key.s_rlp2 - 128

\* The cells of the key row that follow the key: for a short row the key
\* starts in s_main.bytes[0], for a long row in s_main.bytes[1]; c_rlp1 and
\* c_rlp2 follow s_main.bytes[31].
CellsAfterKey ==
    LET tail == leaf_key.bytes \o <<leaf_key.c_rlp1, leaf_key.c_rlp2>>
        used == IF RowIsLong(leaf_key) THEN DeclaredKeyLen + 1 ELSE DeclaredKeyLen
    IN  {tail[i] : i \in {j \in 1..Len(tail) : j > used}}

\* C21: in an accepted short or long key row every cell after the declared
\* key length is 0.
C21_ZeroPaddingAfterKey ==
    (KeyAccepted /\ (RowIsShort(leaf_key) \/ RowIsLong(leaf_key))) => CellsAfterKey \subseteq {0}

\* ------------------------------------------ value row: further properties
\* C22: in an accepted long leaf value row the two RLP meta bytes satisfy
\* s_main.rlp1 = s_main.rlp2 + 1.
C22_LongValueMetaBytes ==
    (ValueAccepted /\ leaf_value.is_long = 1) =>
        leaf_value.s_rlp1 = leaf_value.s_rlp2 + 1

\* The leaf of the value row is not a placeholder.
LeafIsNotPlaceholder ==
    /\ leaf_value.sel = 0
    /\ account.is_account_leaf_in_added_branch = 1 \/ branch.is_modified_node_empty = 0

\* C23: a non-placeholder leaf whose key row is long (flags (1, 0), prefix
\* 248) and whose value row is short is rejected by the Leaf Value Gate.
C23_LongKeyShortValueRejected ==
    (/\ pc = "value_checked"
     /\ LeafIsNotPlaceholder
     /\ RowIsLong(leaf_key) /\ leaf_key.s_rlp1 = 248
     /\ leaf_value.is_short = 1)
        => ~ValueAccepted

C23_Witness ==
    /\ pc = "value_checked"
    /\ LeafIsNotPlaceholder
    /\ RowIsLong(leaf_key) /\ leaf_key.s_rlp1 = 248
    /\ leaf_value.is_short = 1 /\ leaf_value.is_long = 0
    /\ ~value_gate.rlp
    /\ value_gate.type /\ value_gate.rlc /\ value_gate.external
    /\ value_gate.empty_trie /\ value_gate.non_hashed /\ value_gate.keccak

\* ------------------------------------ value row: cells of external lookups
\* Witnesses varying the three cells of the external lookups and the value RLC
\* of the S value row, for S and C value rows that are honest otherwise (a
\* one_nibble key row, a parent branch that stores the leaf RLC unhashed).
InitValueExternal ==
    \E short \in BOOLEAN, b0 \in {0, 7}, s \in BOOLEAN,
       d_key \in 0..1, d_prev \in 0..1, d_value \in 0..1, value_s \in {11, 12} :
        LET raw == IF short THEN ValueRow(5, 0, ZeroBytes, 0, 1)
                   ELSE ValueRow(131, 130, Bytes32(b0, 9, 0, 0), 1, 0)
            key == [KeyRowAbove(IF short THEN 194
                                ELSE FAdd(FAdd(192, 1), long_value_len(raw)),
                                49, 0, 0, 0, 1) EXCEPT !.key_rlc = 23]
            acc_s == HonestLeafRlc(raw, key, short)
            acc_c == HonestValueRlc(raw, short)
        IN  /\ pc = "assigned"
            /\ is_s = s
            /\ branch = [Branch(1, 0, 0, 0, 63, 7, r) EXCEPT !.mod_node_rlc = acc_s]
            /\ above = Above(0, 0, 1, 0, 3, 1)
            /\ account = Account(0)
            /\ leaf_key = key
            /\ leaf_value = [raw EXCEPT !.acc_s_rlc = acc_s, !.acc_c_rlc = acc_c,
                                        !.acc_c_rlc_s = value_s,
                                        !.key_mult = FAdd(key.key_rlc, d_key),
                                        !.value_prev = FAdd(11, d_prev),
                                        !.value = FAdd(acc_c, d_value)]
            /\ keccak = {}
            /\ key_gate = NoKeyVerdict
            /\ value_gate = NoValueVerdict
            /\ lookups = {}
            /\ drifted = NoDriftedRows
            /\ drifted_gate = NoDriftedVerdict
            /\ step = NoStep
            /\ step_gate = NoStepVerdict

SpecValueExternal == InitValueExternal /\ [][NextLeafValue]_vars

\* C24: in every accepted LEAF_VALUE_C row accs.key.mult is key.rlc of the key
\* row above, value_prev is the value RLC (acc_c.rlc) of the LEAF_VALUE_S row
\* two rows above and value is the row's own value RLC; on a LEAF_VALUE_S row
\* these cells are not constrained.
C24_ExternalLookupCells ==
    /\ (ValueAccepted /\ ~is_s) =>
            /\ leaf_value.key_mult = leaf_key.key_rlc
            /\ leaf_value.value_prev = leaf_value.acc_c_rlc_s
            /\ leaf_value.value = leaf_value.acc_c_rlc
    /\ (pc = "value_checked" /\ is_s) => value_gate.external

C24_Witness ==
    /\ ValueAccepted /\ ~is_s
    /\ leaf_value.is_long = 1
    /\ leaf_value.key_mult = 23 /\ leaf_value.value_prev = 12
    /\ leaf_value.value = leaf_value.acc_c_rlc /\ leaf_value.value # 0

\* ------------------------------------------ key row: further properties
\* The account leaf is directly above the leaf (is_leaf_in_first_level = 1).
LeafInFirstLevel == account.is_account_leaf_in_added_branch = 1

\* C25: a leaf key row in the first level whose flags are (1, 1) (last_level)
\* or (0, 0) (one_nibble) is rejected by the Leaf Key Gate, whatever bytes its
\* cells hold.
C25_FirstLevelShortOrLong ==
    (/\ pc = "key_checked"
     /\ LeafInFirstLevel
     /\ RowIsLastLevel(leaf_key) \/ RowIsOneNibble(leaf_key))
        => ~KeyAccepted

C25_Witness ==
    /\ pc = "key_checked"
    /\ LeafInFirstLevel
    /\ RowIsOneNibble(leaf_key)
    /\ ~key_gate.first_level
    /\ key_gate.rlc /\ key_gate.mult /\ key_gate.key /\ key_gate.prev_level
    /\ key_gate.after_placeholder /\ key_gate.range

\* C26: in an accepted one_nibble leaf key row s_rlp2 is 48 + last_nibble with
\* last_nibble in 0..15, i.e. s_rlp2 lies in 48..63.
C26_OneNibbleByte ==
    (KeyAccepted /\ RowIsOneNibble(leaf_key)) => leaf_key.s_rlp2 \in 48..63

\* The selectors of the three total-nibbles constraints of the Leaf Key Gate.
FirstLevelActive == account.is_account_leaf_in_added_branch # 0

NonPlaceholderActive == not_first_level_not_placeholder(is_s, branch, account) # 0

AfterPlaceholderActive == not_first_level_placeholder(is_s, branch, account) # 0

\* The total number of nibbles the active constraint is about, in plain
\* integer arithmetic.
CheckedNibbleTotal ==
    IF account.is_account_leaf_in_added_branch = 1
    THEN LeafNibblesOf(leaf_key, FALSE)
    ELSE IF is_branch_placeholder(is_s, branch) = 0
         THEN branch.nibbles_count + LeafNibblesOf(leaf_key, branch.sel1 = 1)
         ELSE UpperNibbles + LeafNibblesOf(leaf_key, UpperOdd)

\* C27: for boolean is_leaf_in_first_level and is_branch_placeholder exactly
\* one of the three total-nibbles constraints is active on a leaf key row: the
\* first-level one iff is_leaf_in_first_level = 1, the non-placeholder one iff
\* both are 0, the after-placeholder one iff is_leaf_in_first_level = 0 and
\* is_branch_placeholder = 1; every accepted row has a total of 64 nibbles.
C27_OneNibbleTotalCheck ==
    (/\ pc = "key_checked"
     /\ account.is_account_leaf_in_added_branch \in {0, 1}
     /\ is_branch_placeholder(is_s, branch) \in {0, 1})
        => /\ FirstLevelActive <=> account.is_account_leaf_in_added_branch = 1
           /\ NonPlaceholderActive <=> NotFirstLevelNotPlaceholder
           /\ AfterPlaceholderActive <=> AfterPlaceholder
           /\ Cardinality({i \in 1..3 :
                  <<FirstLevelActive, NonPlaceholderActive,
                    AfterPlaceholderActive>>[i]}) = 1
           /\ KeyAccepted => CheckedNibbleTotal = 64

C27_Witness ==
    /\ KeyAccepted
    /\ account.is_account_leaf_in_added_branch = 1
    /\ is_branch_placeholder(is_s, branch) = 1
    /\ FirstLevelActive /\ ~AfterPlaceholderActive /\ ~NonPlaceholderActive
    /\ CheckedNibbleTotal = 64

\* ------------------------------------------ value row: parent linkage
\* The condition of the requirement "Non-hashed leaf in parent" is non-zero.
DirectRlcActive ==
    FMul3(in_parent_branch(leaf_value, branch, account),
          not(is_branch_placeholder(is_s, branch)), not_hashed(leaf_key)) # 0

\* Which of the four Keccak lookups of the parent linkage are enabled: the
\* parent's child, the child of the branch above a placeholder branch, the
\* storage root, the storage root above a placeholder branch.
LinkageLookupsActive ==
    {i \in 1..4 :
        <<leaf_hash_in_parent_lookup(is_s, leaf_value, leaf_key, branch, account),
          leaf_hash_in_parent_placeholder_lookup(is_s, leaf_value, leaf_key, branch,
                                                 above, account),
          storage_root_lookup(leaf_value, leaf_key, account),
          storage_root_after_placeholder_lookup(is_s, leaf_value, leaf_key, branch,
                                                above, account)>>[i][1] # 0}

\* The flags the parent linkage branches on are boolean.
LinkageFlagsBoolean ==
    /\ account.is_account_leaf_in_added_branch \in {0, 1}
    /\ above.is_account_leaf_in_added_branch \in {0, 1}
    /\ is_branch_placeholder(is_s, branch) \in {0, 1}
    /\ branch.is_modified_node_empty \in {0, 1}
    /\ leaf_value.sel \in {0, 1}
    /\ not_hashed(leaf_key) \in {0, 1}

\* C28: a storage leaf value row that is not in the first level and whose
\* leaf is not a placeholder is subject to exactly one parent-linkage
\* requirement (the direct RLC equality or one of the Keccak lookups), for
\* every combination of the account-leaf-above, account-leaf-above-branch and
\* placeholder flags; that lookup is the one the gate issues.
C28_ExactlyOneParentLinkage ==
    (/\ pc = "value_checked"
     /\ LinkageFlagsBoolean
     /\ leaf_value.not_first_level = 1
     /\ is_leaf_placeholder(leaf_value, branch, account) = 0)
        => /\ Cardinality(LinkageLookupsActive)
                + (IF DirectRlcActive THEN 1 ELSE 0) = 1
           /\ Cardinality(lookups) = Cardinality(LinkageLookupsActive)

C28_Witness ==
    /\ ValueAccepted
    /\ leaf_value.not_first_level = 1
    /\ is_leaf_placeholder(leaf_value, branch, account) = 0
    /\ account.is_account_leaf_in_added_branch = 0
    /\ above.is_account_leaf_in_added_branch = 1
    /\ is_branch_placeholder(is_s, branch) = 1
    /\ LinkageLookupsActive = {4} /\ ~DirectRlcActive

\* ------------------------------------------- value row: witness assignment
\* Length of the value part of the leaf the value row holds: one byte for a
\* short value, the declared length plus the two RLP bytes for a long one.
ValuePartLen ==
    IF leaf_value.s_rlp1 < 128 THEN 1 ELSE (leaf_value.s_rlp2 - 128) + 2

\* The value row holds a short value (one byte below 128, nothing else) or a
\* long value (s_rlp1 = s_rlp2 + 1, s_rlp2 = 128 + length, zeros after it).
ValueRowWellFormed ==
    /\ leaf_value.c_rlp1 = 0 /\ leaf_value.c_rlp2 = 0
    /\ \/ /\ leaf_value.s_rlp1 \in 1..127 /\ leaf_value.s_rlp2 = 0
          /\ leaf_value.bytes = ZeroBytes
       \/ /\ leaf_value.s_rlp2 \in 129..160
          /\ leaf_value.s_rlp1 = leaf_value.s_rlp2 + 1
          /\ \A i \in 1..HASH_WIDTH :
                i > leaf_value.s_rlp2 - 128 => leaf_value.bytes[i] = 0

\* The lengths the key row declares add up with the value part.
KeyRowWellFormed ==
    IF leaf_key.s_rlp1 = 248
    THEN /\ Byte(leaf_key, 0) \in 129..161
         /\ leaf_key.s_rlp2 = 1 + (Byte(leaf_key, 0) - 128) + ValuePartLen
    ELSE IF leaf_key.s_rlp2 < 128
    THEN leaf_key.s_rlp1 = 192 + 1 + ValuePartLen
    ELSE /\ leaf_key.s_rlp2 \in 129..161
         /\ leaf_key.s_rlp1 = 192 + 1 + (leaf_key.s_rlp2 - 128) + ValuePartLen

WellFormedLeaf == ValueRowWellFormed /\ KeyRowWellFormed

\* C29: for the key row / value row pair of a well-formed leaf, assign ends
\* normally, chooses long iff the value part is longer than one byte, stores
\* acc_s continued from the key row over the value row and acc_c started at
\* 0 over the value (from the first byte for short, the third for long), and
\* the assigned cells satisfy is_long + is_short = 1 and the value_rlc and
\* leaf_rlc requirements of the Leaf Value Gate.
C29_AssignSatisfiesValueGate ==
    WellFormedLeaf =>
        /\ pc # "panicked"
        /\ pc \in {"assigned", "value_checked"} =>
            /\ leaf_value.is_long = 1 <=> ValuePartLen > 1
            /\ leaf_value.is_long + leaf_value.is_short = 1
            /\ leaf_value.acc_s_rlc
                 = FAdd(leaf_key.acc_s_rlc,
                        FMul(leaf_key.acc_s_mult,
                             RowRlc(SubSeq(Cells(leaf_value), 1, HASH_WIDTH + 2))))
            /\ leaf_value.acc_c_rlc
                 = RowRlc(IF ValuePartLen > 1 THEN leaf_value.bytes
                          ELSE <<leaf_value.s_rlp1>>)
        /\ pc = "value_checked" => value_gate.type /\ value_gate.rlc

C29_Witness ==
    /\ pc = "value_checked" /\ WellFormedLeaf
    /\ leaf_key.s_rlp1 = 248 /\ leaf_value.is_long = 1
    /\ leaf_value.acc_c_rlc # 0
    /\ value_gate.type /\ value_gate.rlc

\* C30: no subtraction on bytes underflows in assign: for every key row it is
\* called on, all-zero placeholder rows and rows with a first byte below 192
\* included, every difference stays within 0..255.
C30_NoByteUnderflow ==
    pc \in {"assigned", "panicked", "value_checked"} =>
        \A i \in 1..Len(assign_subtractions(leaf_key)) :
            LET d == assign_subtractions(leaf_key)[i]
            IN  d[1] - d[2] \in 0..255

====
